---------------------------- MODULE Spec2Model ----------------------------
(***************************************************************************)
(* State-synchronisation core of the trading dashboard: the in-memory      *)
(* store (server/storage.ts), the REST + WebSocket routes (server routes,  *)
(* src/unnamed/part_001) and the WebSocket client (src/unnamed/part_007).  *)
(*                                                                         *)
(* Timestamps (new Date()) are not modelled: no modelled code reads them.  *)
(* A JS Map is a sequence of [k, v] entries in insertion order, which is   *)
(* the order Array.from(map.values()) yields.                              *)
(***************************************************************************)
EXTENDS Integers, Sequences, FiniteSets, TLC

VARIABLES
    store,      \* the MemStorage singleton: collections and id counters
    appended,   \* history variable: every entry ever appended, per history
    issued,     \* history variable: ids returned by create calls, per collection
    ret,        \* the last storage call or read: [op, arg, value]
    clients,    \* wss.clients: channel -> "absent" | "open" | "closing"
    sent,       \* frames handed to ws.send on each channel since it connected
    inflight,   \* handlers suspended on an await of saveToFile
    files,      \* the JSON snapshot files of the config folder
    writeFailed, \* history variable: the files a write of which failed
    resp,       \* the HTTP response sent by the last step, if any
    bcast,      \* the events the last step passed to broadcastToAll
    requests,   \* requests, connection events, messages and timer ticks handled
    conn,       \* client: the SignalRConnection objects
    reconnectTimeout, \* client: the module-level timer handle
    timers,     \* client: pending setTimeout callbacks
    disconnected, \* history variable: the connections disconnectFromSignalR was called on
    mirror,     \* client: the TradingContext state the events update
    ordersStringId, \* client: the orders state of the context's later revision
    positionsStringId, \* client: the positions state of the later revision
    received,   \* the frames handed to socket.onmessage: how many, the last two
    page,       \* client: where loadInitialData is, and the frames taken from each channel
    submitted,  \* history variable: the calls of sendSignalRMessage
    wire        \* the messages socket.send transmitted

storeVars  == <<store, appended, issued, ret>>
serverVars == <<clients, sent, inflight, files, writeFailed, resp, bcast, requests>>
viewerVars == <<mirror, ordersStringId, positionsStringId, received, page, submitted, wire>>
clientVars == <<conn, reconnectTimeout, timers, disconnected, mirror, ordersStringId,
                positionsStringId, received, page, submitted, wire>>
vars       == <<store, appended, issued, ret, clients, sent, inflight, files, writeFailed,
                resp, bcast, requests, conn, reconnectTimeout, timers, disconnected, mirror,
                ordersStringId, positionsStringId, received, page, submitted, wire>>

-----------------------------------------------------------------------------
(* Bounds of the model *)

\* ids handed out by the explored calls, all collections together, on top of
\* the rows the store starts with
MaxIssued == 3
\* the same, for the runs that start from pre-filled histories
MaxAppends == 2
\* requests, connection events, client messages and timer ticks the server
\* handles in a run
MaxRequests == 3
\* handlers suspended on a file write at the same time
MaxInflight == 2

\* frames handed to the viewer's onmessage
MaxFrames == 2

\* calls of sendSignalRMessage
MaxSends == 2

\* responses and events parsed by the context's later revision
MaxParses == 1

(* Program constants *)

\* const maxAttempts = 10 (scheduleReconnect)
MaxAttempts == 10
\* Math.min(30000, Math.pow(2, attempts) * 1000), in milliseconds
MaxDelay == 30000
BaseDelay == 1000

\* "Keep only the most recent 1000 logs" (also band data and quotes)
HistoryCap == 1000
\* history endpoints: limit defaults to 100
DefaultLimit == 100

-----------------------------------------------------------------------------
(* JS helpers *)

Undefined == [tag |-> "undefined"]

Min(a, b) == IF a <= b THEN a ELSE b
Max(a, b) == IF a >= b THEN a ELSE b

Last(s) == s[Len(s)]

\* Array.prototype.shift: removes the first element
Shift(s) == Tail(s)

\* Array.prototype.slice(start) for an integer start
Slice(s, start) ==
    LET n    == Len(s)
        from == IF start < 0 THEN Max(n + start, 0) ELSE Min(start, n)
    IN  SubSeq(s, from + 1, n)

\* Map.prototype.has / get / set / delete on a sequence of [k, v] entries
MapHas(m, k) == \E i \in 1..Len(m) : m[i].k = k
MapGet(m, k) ==
    IF MapHas(m, k) THEN m[CHOOSE i \in 1..Len(m) : m[i].k = k].v ELSE Undefined
MapSet(m, k, v) ==
    IF MapHas(m, k)
    THEN [i \in 1..Len(m) |-> IF m[i].k = k THEN [k |-> k, v |-> v] ELSE m[i]]
    ELSE Append(m, [k |-> k, v |-> v])
MapDelete(m, k) == SelectSeq(m, LAMBDA e : e.k # k)
\* Array.from(map.values())
MapValues(m) == [i \in 1..Len(m) |-> m[i].v]
MapKeys(m) == {m[i].k : i \in 1..Len(m)}

\* { ...a, ...b } for records given as functions on field names
Spread(a, b) ==
    [f \in (DOMAIN a) \cup (DOMAIN b) |-> IF f \in DOMAIN b THEN b[f] ELSE a[f]]


\* a JS number as parseInt yields it: an integer or NaN
Num(n) == [nan |-> FALSE, n |-> n]
NaN == [nan |-> TRUE, n |-> 0]
\* unary minus, and ToIntegerOrInfinity as slice applies it to its argument
Neg(x) == IF x.nan THEN NaN ELSE Num(0 - x.n)
ToInteger(x) == IF x.nan THEN 0 ELSE x.n

-----------------------------------------------------------------------------
(* MemStorage (server/storage.ts).  Every method is an operator from the   *)
(* store to [s: the store after the call, r: the value returned,           *)
(* logged: the log entries the call appended].                             *)

Result(s, r, logged) == [s |-> s, r |-> r, logged |-> logged]

\* the id taken from the number of rows instead of the counter
createAccount_sizeId(s, account) ==
    LET id         == Len(s.accounts) + 1
        newAccount == Spread(account, [id |-> id])
    IN  Result([s EXCEPT !.accountId = id + 1,
                         !.accounts = MapSet(s.accounts, id, newAccount)],
               newAccount, <<>>)

createAccount(s, account) ==
    LET id         == s.accountId
        newAccount == Spread(account, [id |-> id])
    IN  Result([s EXCEPT !.accountId = id + 1,
                         !.accounts = MapSet(s.accounts, id, newAccount)],
               newAccount, <<>>)

getAccounts(s) == MapValues(s.accounts)

updateAccount(s, id, accountUpdate) ==
    LET account == MapGet(s.accounts, id)
    IN  IF account = Undefined
        THEN Result(s, Undefined, <<>>)
        ELSE LET updatedAccount == Spread(account, accountUpdate)
             IN  Result([s EXCEPT !.accounts = MapSet(s.accounts, id, updatedAccount)],
                        updatedAccount, <<>>)

deleteAccount(s, id) ==
    Result([s EXCEPT !.accounts = MapDelete(s.accounts, id)],
           MapHas(s.accounts, id), <<>>)

getLogs(s) == s.logs

\* pop() in place of shift(): the newest entry is dropped
createLog_pop(s, log) ==
    LET id     == s.logId
        newLog == Spread(log, [id |-> id])
        pushed == Append(s.logs, newLog)
    IN  Result([s EXCEPT !.logId = id + 1,
                         !.logs = IF Len(pushed) > HistoryCap
                                  THEN SubSeq(pushed, 1, Len(pushed) - 1) ELSE pushed],
               newLog, <<newLog>>)

createLog(s, log) ==
    LET id     == s.logId
        newLog == Spread(log, [id |-> id])
        pushed == Append(s.logs, newLog)
    IN  Result([s EXCEPT !.logId = id + 1,
                         !.logs = IF Len(pushed) > HistoryCap
                                  THEN Shift(pushed) ELSE pushed],
               newLog, <<newLog>>)

getOrders(s) == MapValues(s.orders)

\* the template without the price
OrderText_noPrice(order) ==
    <<order.side, " ", ToString(order.quantity), " ", order.symbol>>
\* `${order.side} ${order.quantity} ${order.symbol} @ ${order.price}`:
\* a message is the sequence of the pieces the template concatenates
OrderText(order) ==
    <<order.side, " ", ToString(order.quantity), " ", order.symbol, " @ ", order.price>>

createOrder(s, order) ==
    LET id       == s.orderId
        newOrder == Spread(order, [id |-> id])
        s1       == [s EXCEPT !.orderId = id + 1,
                              !.orders = MapSet(s.orders, id, newOrder)]
        lg       == createLog(s1, [level |-> "Info",
                                   message |-> <<"New order created: ">> \o OrderText(order)])
    IN  Result(lg.s, newOrder, lg.logged)

updateOrder(s, id, orderUpdate) ==
    LET order == MapGet(s.orders, id)
    IN  IF order = Undefined
        THEN Result(s, Undefined, <<>>)
        ELSE LET updatedOrder == Spread(order, orderUpdate)
                 s1 == [s EXCEPT !.orders = MapSet(s.orders, id, updatedOrder)]
                 lg == createLog(s1, [level |-> "Info",
                                      message |-> <<"Order #", ToString(id), " updated: ",
                                                    updatedOrder.status>>])
             IN  Result(lg.s, updatedOrder, lg.logged)

\* a delete that reports success whether or not the order exists
deleteOrder_true(s, id) ==
    Result([s EXCEPT !.orders = MapDelete(s.orders, id)], TRUE, <<>>)
deleteOrder(s, id) ==
    LET order == MapGet(s.orders, id)
        lg    == IF order # Undefined
                 THEN createLog(s, [level |-> "Info",
                                    message |-> <<"Order #", ToString(id), " canceled: ">>
                                                \o OrderText(order)])
                 ELSE Result(s, Undefined, <<>>)
    IN  Result([lg.s EXCEPT !.orders = MapDelete(lg.s.orders, id)],
               MapHas(lg.s.orders, id), lg.logged)

getPositions(s) == MapValues(s.positions)

createPosition(s, position) ==
    LET id          == s.positionId
        newPosition == Spread(position, [id |-> id])
    IN  Result([s EXCEPT !.positionId = id + 1,
                         !.positions = MapSet(s.positions, id, newPosition)],
               newPosition, <<>>)

deletePosition(s, id) ==
    Result([s EXCEPT !.positions = MapDelete(s.positions, id)],
           MapHas(s.positions, id), <<>>)

getSetting(s, type) == MapGet(s.settingsMap, type)

\* a new row is written on every call
createOrUpdateSetting_insert(s, type, data) ==
    LET id         == s.settingId
        newSetting == [id |-> id, type |-> type, data |-> data]
    IN  Result([s EXCEPT !.settingId = id + 1,
                         !.settingsMap = MapSet(s.settingsMap, type, newSetting)],
               newSetting, <<>>)

createOrUpdateSetting(s, type, data) ==
    LET existingSetting == MapGet(s.settingsMap, type)
    IN  IF existingSetting # Undefined
        THEN LET updatedSetting == Spread(existingSetting, [data |-> data])
             IN  Result([s EXCEPT !.settingsMap = MapSet(s.settingsMap, type, updatedSetting)],
                        updatedSetting, <<>>)
        ELSE LET id         == s.settingId
                 newSetting == [id |-> id, type |-> type, data |-> data]
             IN  Result([s EXCEPT !.settingId = id + 1,
                                  !.settingsMap = MapSet(s.settingsMap, type, newSetting)],
                        newSetting, <<>>)

getServiceStatuses(s) == MapValues(s.serviceStatusMap)

getProgramState(s) == s.programStateValue

\* the state is set to running instead of being inverted
toggleProgramState_set(s) ==
    LET s1 == IF s.programStateValue = Undefined
              THEN [s EXCEPT !.programStateId = s.programStateId + 1,
                             !.programStateValue =
                                 [id |-> s.programStateId, running |-> TRUE]]
              ELSE [s EXCEPT !.programStateValue =
                                 Spread(s.programStateValue, [running |-> TRUE])]
        lg == createLog(s1, [level |-> "Info",
                             message |-> <<"Program ",
                                           IF s1.programStateValue.running
                                           THEN "started" ELSE "stopped">>])
    IN  Result(lg.s, lg.s.programStateValue, lg.logged)

toggleProgramState(s) ==
    LET s1 == IF s.programStateValue = Undefined
              THEN [s EXCEPT !.programStateId = s.programStateId + 1,
                             !.programStateValue =
                                 [id |-> s.programStateId, running |-> TRUE]]
              ELSE [s EXCEPT !.programStateValue =
                                 Spread(s.programStateValue,
                                        [running |-> ~s.programStateValue.running])]
        lg == createLog(s1, [level |-> "Info",
                             message |-> <<"Program ",
                                           IF s1.programStateValue.running
                                           THEN "started" ELSE "stopped">>])
    IN  Result(lg.s, lg.s.programStateValue, lg.logged)

getCurrentBandData(s) ==
    IF Len(s.bandDataHistory) = 0 THEN Undefined ELSE Last(s.bandDataHistory)

updateBandData(s, data) ==
    LET id          == s.bandDataId
        newBandData == Spread(data, [id |-> id])
        pushed      == Append(s.bandDataHistory, newBandData)
    IN  Result([s EXCEPT !.bandDataId = id + 1,
                         !.bandDataHistory = IF Len(pushed) > HistoryCap
                                             THEN Shift(pushed) ELSE pushed],
               newBandData, <<>>)

\* slice(0, limit) in place of slice(-limit): the oldest entries
getBandDataHistory_head(s, limit) ==
    SubSeq(s.bandDataHistory, 1, Min(Max(ToInteger(limit), 0), Len(s.bandDataHistory)))

getBandDataHistory(s, limit) == Slice(s.bandDataHistory, ToInteger(Neg(limit)))

getCurrentQuote(s, symbol) ==
    LET quotes == MapGet(s.quoteDataMap, symbol)
    IN  IF ~MapHas(s.quoteDataMap, symbol) \/ Len(quotes) = 0
        THEN Undefined ELSE Last(quotes)

updateQuote(s, data) ==
    LET id       == s.quoteDataId
        newQuote == Spread(data, [id |-> id])
        m1       == IF ~MapHas(s.quoteDataMap, data.symbol)
                    THEN MapSet(s.quoteDataMap, data.symbol, <<>>)
                    ELSE s.quoteDataMap
        pushed   == Append(MapGet(m1, data.symbol), newQuote)
        quotes   == IF Len(pushed) > HistoryCap THEN Shift(pushed) ELSE pushed
    IN  Result([s EXCEPT !.quoteDataId = id + 1,
                         !.quoteDataMap = MapSet(m1, data.symbol, quotes)],
               newQuote, <<>>)

getQuoteHistory(s, symbol, limit) ==
    LET quotes == MapGet(s.quoteDataMap, symbol)
    IN  IF ~MapHas(s.quoteDataMap, symbol)
        THEN <<>> ELSE Slice(quotes, ToInteger(Neg(limit)))

initializeServiceStatuses(s) ==
    LET statuses == <<[name |-> "Backend API", status |-> "Connected"],
                      [name |-> "SignalR", status |-> "Connected"],
                      [name |-> "Market Data", status |-> "Active"],
                      [name |-> "Order System", status |-> "Connected"]>>
    IN  [s EXCEPT !.serviceStatusId = s.serviceStatusId + Len(statuses),
                  !.serviceStatusMap =
                      [i \in 1..Len(statuses) |->
                          [k |-> statuses[i].name,
                           v |-> Spread(statuses[i], [id |-> s.serviceStatusId + i - 1])]]]

TestAccounts ==
    <<[name |-> "Account 1", broker |-> "Interactive Brokers", apiKey |-> "test-key-1",
       apiSecret |-> "test-secret-1", active |-> TRUE],
      [name |-> "Account 2", broker |-> "TD Ameritrade", apiKey |-> "test-key-2",
       apiSecret |-> "test-secret-2", active |-> TRUE]>>

DefaultSymbol == "ES2023"

initializeTestData(s) ==
    LET s1 == createAccount(s, TestAccounts[1]).s
        s2 == createAccount(s1, TestAccounts[2]).s
        s3 == updateBandData(s2, [premium |-> "2.43", upperBand |-> "4.62",
                                  lowerBand |-> "1.24"]).s
    IN  updateQuote(s3, [symbol |-> DefaultSymbol, price |-> "4287.25",
                         change |-> "0.25"]).s

\* new MemStorage()
Constructor ==
    LET s0 == [accounts |-> <<>>, orders |-> <<>>, positions |-> <<>>, logs |-> <<>>,
               settingsMap |-> <<>>, serviceStatusMap |-> <<>>,
               programStateValue |-> Undefined,
               bandDataHistory |-> <<>>, quoteDataMap |-> <<>>,
               accountId |-> 1, orderId |-> 1, positionId |-> 1, logId |-> 1,
               settingId |-> 1, serviceStatusId |-> 1, programStateId |-> 1,
               bandDataId |-> 1, quoteDataId |-> 1]
        s1 == initializeServiceStatuses(s0)
        s2 == [s1 EXCEPT !.programStateId = s1.programStateId + 1,
                         !.programStateValue =
                             [id |-> s1.programStateId, running |-> FALSE]]
    IN  initializeTestData(s2)

-----------------------------------------------------------------------------
(* Inputs explored *)

Symbols == {DefaultSymbol, "NQ2023"}

AccountInputs ==
    {[name |-> "Acct1", broker |-> "IB", apiKey |-> "k", apiSecret |-> "s",
      active |-> TRUE]}
AccountUpdates == {[active |-> FALSE]}

OrderInputs ==
    {[accountId |-> 1, symbol |-> "ES", side |-> "Buy", quantity |-> 1,
      price |-> "4300", orderType |-> "Limit", timeInForce |-> "Day",
      status |-> "Working"],
     [accountId |-> 2, symbol |-> "NQ", side |-> "Sell", quantity |-> 12,
      price |-> "15000.50", orderType |-> "Limit", timeInForce |-> "GTC",
      status |-> "Pending"]}
OrderUpdates == {[status |-> "Filled"]}

PositionInputs ==
    {[accountId |-> 1, symbol |-> "ES", quantity |-> 2, avgPrice |-> "4290.00",
      pnl |-> "25.00"]}

LogInputs ==
    {[level |-> "Warning", message |-> <<"Latency detected in order execution">>]}

BandInputs == {[premium |-> "2.51", upperBand |-> "4.62", lowerBand |-> "1.24"]}

QuoteInputs ==
    {[symbol |-> sym, price |-> "4288.00", change |-> "0.30"] : sym \in Symbols}

SettingTypes == {"global", "daily"}
SettingData == {[futureSymbol |-> "ES"], [futureSymbol |-> "NQ"]}

\* ids a caller names: the one handed out last and one never handed out
IdsToTry(counter) == {Max(1, counter - 1), counter}

-----------------------------------------------------------------------------
(* History variables *)

Collections == {"accounts", "orders", "positions", "logs", "band", "quotes"}

Ids(entries) == [i \in 1..Len(entries) |-> entries[i].id]

\* the rows a store holds right after construction, before any eviction
AppendedOf(s) ==
    [logs   |-> s.logs,
     band   |-> s.bandDataHistory,
     quotes |-> [sym \in Symbols |->
                    IF MapHas(s.quoteDataMap, sym) THEN MapGet(s.quoteDataMap, sym)
                    ELSE <<>>]]

NoIssued == [c \in Collections |-> <<>>]

\* the call appended res.logged to the logs
Logged(res) ==
    /\ appended' = [appended EXCEPT !.logs = @ \o res.logged]
    /\ issued' = [issued EXCEPT !["logs"] = @ \o Ids(res.logged)]

\* a create call on collection c returned res.r, and appended res.logged to the logs
Created(c, res) ==
    /\ appended' = [appended EXCEPT !.logs = @ \o res.logged]
    /\ issued' = [issued EXCEPT ![c] = Append(@, res.r.id),
                                !["logs"] = @ \o Ids(res.logged)]

TotalIssued ==
    Len(issued["accounts"]) + Len(issued["orders"]) + Len(issued["positions"])
    + Len(issued["logs"]) + Len(issued["band"]) + Len(issued["quotes"])

\* the explored call may hand out k more ids within the bound max
Room(k, max) == TotalIssued + k <= max

Ret(op, arg, value) == [op |-> op, arg |-> arg, value |-> value]

\* an append to the band history, or to a symbol's quote history, returned res.r
AppendedBand(res) ==
    /\ appended' = [appended EXCEPT !.band = Append(@, res.r)]
    /\ issued' = [issued EXCEPT !["band"] = Append(@, res.r.id)]
AppendedQuote(res) ==
    /\ appended' = [appended EXCEPT !.quotes[res.r.symbol] = Append(@, res.r)]
    /\ issued' = [issued EXCEPT !["quotes"] = Append(@, res.r.id)]

-----------------------------------------------------------------------------
(* The storage interface driven directly (IStorage), one action per method *)

CreateAccount(max) ==
    \E account \in AccountInputs :
        LET res == createAccount(store, account) IN
        /\ Room(1, max)
        /\ store' = res.s
        /\ Created("accounts", res)
        /\ ret' = Ret("createAccount", account, res.r)
        /\ UNCHANGED <<serverVars, clientVars>>

UpdateAccount ==
    \E id \in IdsToTry(store.accountId), upd \in AccountUpdates :
        LET res == updateAccount(store, id, upd) IN
        /\ store' = res.s
        /\ ret' = Ret("updateAccount", id, res.r)
        /\ UNCHANGED <<appended, issued, serverVars, clientVars>>

DeleteAccount ==
    \E id \in IdsToTry(store.accountId) :
        LET res == deleteAccount(store, id) IN
        /\ store' = res.s
        /\ ret' = Ret("deleteAccount", id, res.r)
        /\ UNCHANGED <<appended, issued, serverVars, clientVars>>

CreateOrder(max) ==
    \E order \in OrderInputs :
        LET res == createOrder(store, order) IN
        /\ Room(2, max)
        /\ store' = res.s
        /\ Created("orders", res)
        /\ ret' = Ret("createOrder", order, res.r)
        /\ UNCHANGED <<serverVars, clientVars>>

UpdateOrder(max) ==
    \E id \in IdsToTry(store.orderId), upd \in OrderUpdates :
        LET res == updateOrder(store, id, upd) IN
        /\ Room(1, max)
        /\ store' = res.s
        /\ Logged(res)
        /\ ret' = Ret("updateOrder", id, res.r)
        /\ UNCHANGED <<serverVars, clientVars>>

DeleteOrder(max) ==
    \E id \in IdsToTry(store.orderId) :
        LET res == deleteOrder(store, id) IN
        /\ Room(1, max)
        /\ store' = res.s
        /\ Logged(res)
        /\ ret' = Ret("deleteOrder", id, res.r)
        /\ UNCHANGED <<serverVars, clientVars>>

CreatePosition(max) ==
    \E position \in PositionInputs :
        LET res == createPosition(store, position) IN
        /\ Room(1, max)
        /\ store' = res.s
        /\ Created("positions", res)
        /\ ret' = Ret("createPosition", position, res.r)
        /\ UNCHANGED <<serverVars, clientVars>>

DeletePosition ==
    \E id \in IdsToTry(store.positionId) :
        LET res == deletePosition(store, id) IN
        /\ store' = res.s
        /\ ret' = Ret("deletePosition", id, res.r)
        /\ UNCHANGED <<appended, issued, serverVars, clientVars>>

CreateLog(max) ==
    \E log \in LogInputs :
        LET res == createLog(store, log) IN
        /\ Room(1, max)
        /\ store' = res.s
        /\ Logged(res)
        /\ ret' = Ret("createLog", log, res.r)
        /\ UNCHANGED <<serverVars, clientVars>>

CreateOrUpdateSetting ==
    \E type \in SettingTypes, data \in SettingData :
        LET res == createOrUpdateSetting(store, type, data) IN
        /\ store' = res.s
        /\ ret' = Ret("createOrUpdateSetting", type, res.r)
        /\ UNCHANGED <<appended, issued, serverVars, clientVars>>

ToggleProgramState(max) ==
    LET res == toggleProgramState(store) IN
    /\ Room(1, max)
    /\ store' = res.s
    /\ Logged(res)
    /\ ret' = Ret("toggleProgramState", Undefined, res.r)
    /\ UNCHANGED <<serverVars, clientVars>>

UpdateBandData(max) ==
    \E data \in BandInputs :
        LET res == updateBandData(store, data) IN
        /\ Room(1, max)
        /\ store' = res.s
        /\ AppendedBand(res)
        /\ ret' = Ret("updateBandData", data, res.r)
        /\ UNCHANGED <<serverVars, clientVars>>

UpdateQuote(max) ==
    \E data \in QuoteInputs :
        LET res == updateQuote(store, data) IN
        /\ Room(1, max)
        /\ store' = res.s
        /\ AppendedQuote(res)
        /\ ret' = Ret("updateQuote", data, res.r)
        /\ UNCHANGED <<serverVars, clientVars>>

-----------------------------------------------------------------------------
(* The history endpoints.  A query-string value is the sequence of its     *)
(* characters; an absent parameter is the empty sequence (undefined and "" *)
(* are both falsy in `req.query.limit ? ... : 100`).                       *)

DigitValue ==
    [c \in {"0", "1", "2", "3", "4", "5", "6", "7", "8", "9"} |->
        CASE c = "0" -> 0 [] c = "1" -> 1 [] c = "2" -> 2 [] c = "3" -> 3
          [] c = "4" -> 4 [] c = "5" -> 5 [] c = "6" -> 6 [] c = "7" -> 7
          [] c = "8" -> 8 [] c = "9" -> 9]

RECURSIVE DigitsPrefix(_, _)
\* the value of the longest prefix of decimal digits of str, continuing from acc
DigitsPrefix(str, acc) ==
    IF str = <<>> \/ Head(str) \notin DOMAIN DigitValue
    THEN acc
    ELSE DigitsPrefix(Tail(str), 10 * acc + DigitValue[Head(str)])

\* parseInt(str) in radix 10: optional sign, then the leading digits; NaN without one
parseInt(str) ==
    LET signed == str # <<>> /\ Head(str) \in {"-", "+"}
        body   == IF signed THEN Tail(str) ELSE str
    IN  IF body = <<>> \/ Head(body) \notin DOMAIN DigitValue
        THEN NaN
        ELSE IF signed /\ Head(str) = "-"
             THEN Num(0 - DigitsPrefix(body, 0))
             ELSE Num(DigitsPrefix(body, 0))

\* req.query.limit ? parseInt(req.query.limit as string) : 100
LimitOf(query) == IF query # <<>> THEN parseInt(query) ELSE Num(DefaultLimit)

LimitQueries ==
    {<<>>, <<"2">>, <<"1", "5", "0">>, <<"0">>, <<"-", "2">>, <<"a", "l", "l">>}

\* GET /api/band-data/history?limit=
GetBandDataHistory ==
    \E query \in LimitQueries :
        LET limit == LimitOf(query) IN
        /\ ret' = Ret("getBandDataHistory", [query |-> query, limit |-> limit],
                      getBandDataHistory(store, limit))
        /\ UNCHANGED <<store, appended, issued, serverVars, clientVars>>

\* GET /api/quote/:symbol/history?limit=
GetQuoteHistory ==
    \E symbol \in Symbols, query \in LimitQueries :
        LET limit == LimitOf(query) IN
        /\ ret' = Ret("getQuoteHistory",
                      [symbol |-> symbol, query |-> query, limit |-> limit],
                      getQuoteHistory(store, symbol, limit))
        /\ UNCHANGED <<store, appended, issued, serverVars, clientVars>>

-----------------------------------------------------------------------------
(* Request bodies and their zod schemas (shared/schema.ts).  A JSON body   *)
(* is a function from its field names to [t: typeof the value, v: value].  *)

Json(type, v) == [t |-> type, v |-> v]

OrderFieldType ==
    [accountId |-> "number", symbol |-> "string", side |-> "string",
     quantity |-> "number", price |-> "string", orderType |-> "string",
     timeInForce |-> "string", status |-> "string"]
AccountFieldType ==
    [name |-> "string", broker |-> "string", apiKey |-> "string",
     apiSecret |-> "string", active |-> "boolean"]
LogFieldType == [level |-> "string", message |-> "string"]

\* the body JSON.stringify gives a well-typed value
ToBody(value, types) == [f \in DOMAIN value |-> Json(types[f], value[f])]
Without(body, field) == [f \in (DOMAIN body) \ {field} |-> body[f]]

\* columns with a default are optional in the insert schema
AccountOptional == {"active"}
NoOptional == {}
\* a schema that checks presence only
SchemaOk_presence(body, types, optional) ==
    \A f \in (DOMAIN types) \ optional : f \in DOMAIN body
\* schema.parse(body): every required field present, every field present of
\* its type (ZodError otherwise)
SchemaOk(body, types, optional) ==
    /\ \A f \in (DOMAIN types) \ optional : f \in DOMAIN body
    /\ \A f \in (DOMAIN body) \cap (DOMAIN types) : body[f].t = types[f]
\* schema.partial().parse(body): the fields present have their type
PartialOk(body, types) ==
    \A f \in (DOMAIN body) \cap (DOMAIN types) : body[f].t = types[f]
\* the parsed value: the schema's fields, unknown keys stripped
Parsed(body, types) == [f \in (DOMAIN body) \cap (DOMAIN types) |-> body[f].v]

\* the bodies tried: a well-formed one, one with a required field missing,
\* one with a field of the wrong type
Defects == {"none", "missing", "wrongType"}
UpdateDefects == {"none", "wrongType"}
OrderBody(o, defect) ==
    LET body == ToBody(o, OrderFieldType) IN
    CASE defect = "missing"   -> Without(body, "symbol")
      [] defect = "wrongType" -> [body EXCEPT !.quantity = Json("string", "All")]
      [] OTHER                -> body
AccountBody(a, defect) ==
    LET body == ToBody(a, AccountFieldType) IN
    CASE defect = "missing"   -> Without(body, "apiKey")
      [] defect = "wrongType" -> [body EXCEPT !.active = Json("string", "yes")]
      [] OTHER                -> body
LogBody(l, defect) ==
    LET body == ToBody(l, LogFieldType) IN
    CASE defect = "missing"   -> Without(body, "message")
      [] defect = "wrongType" -> [body EXCEPT !.level = Json("number", 3)]
      [] OTHER                -> body
OrderUpdateBody(u, defect) ==
    IF defect = "wrongType" THEN [quantity |-> Json("string", "All")]
    ELSE ToBody(u, OrderFieldType)
AccountUpdateBody(u, defect) ==
    IF defect = "wrongType" THEN [active |-> Json("string", "yes")]
    ELSE ToBody(u, AccountFieldType)
SettingTypesTried == SettingTypes \cup {"weekly"}

-----------------------------------------------------------------------------
(* The WebSocket server and the routes (registerRoutes) *)

\* the WebSocket connections, numbered in the order the server accepts them
Channels == {1, 2}

\* an envelope that wraps the value once more
Frame_wrapped(type, data) == [type |-> type, data |-> [data |-> data]]
\* the event envelope { type, data }
Frame(type, data) == [type |-> type, data |-> data]

\* a send on every channel, whatever its readyState
broadcastToAll_all(snt, cl, event) ==
    [ch \in Channels |-> Append(snt[ch], event)]

\* broadcastToAll: a send on every client whose readyState is OPEN
broadcastToAll(snt, cl, event) ==
    [ch \in Channels |-> IF cl[ch] = "open" THEN Append(snt[ch], event) ELSE snt[ch]]

\* a bootstrap that sends the quote first
sendInitialData_quoteFirst(s) ==
    (IF getCurrentQuote(s, DefaultSymbol) # Undefined
     THEN <<Frame("quoteUpdated", getCurrentQuote(s, DefaultSymbol))>> ELSE <<>>)
    \o <<Frame("positionsUpdated", getPositions(s)),
         Frame("ordersUpdated", getOrders(s)),
         Frame("serviceStatusUpdated", getServiceStatuses(s)),
         Frame("logsUpdated", getLogs(s)),
         Frame("programStateUpdated", getProgramState(s))>>
    \o (IF getCurrentBandData(s) # Undefined
        THEN <<Frame("bandDataUpdated", getCurrentBandData(s))>> ELSE <<>>)
\* sendInitialData: the frames it sends, in order
sendInitialData(s) ==
    (IF getCurrentBandData(s) # Undefined
     THEN <<Frame("bandDataUpdated", getCurrentBandData(s))>> ELSE <<>>)
    \o <<Frame("positionsUpdated", getPositions(s)),
         Frame("ordersUpdated", getOrders(s)),
         Frame("serviceStatusUpdated", getServiceStatuses(s)),
         Frame("logsUpdated", getLogs(s)),
         Frame("programStateUpdated", getProgramState(s))>>
    \o (IF getCurrentQuote(s, DefaultSymbol) # Undefined
        THEN <<Frame("quoteUpdated", getCurrentQuote(s, DefaultSymbol))>> ELSE <<>>)

NoBody == [tag |-> "empty"]
\* what the model keeps of a request: how its body was malformed (if it was),
\* the :id and the :type of its path
Request(defect, id, type) == [defect |-> defect, id |-> id, type |-> type]
NoRequest == Request("none", 0, "")
Response(op, req, status, body) ==
    [op |-> op, req |-> req, status |-> status, body |-> body]
Message(text) == [message |-> text]
NoResponse == Response("none", NoRequest, 0, NoBody)

\* the server takes up one more request, connection event, message or tick
Accept ==
    /\ requests < MaxRequests
    /\ requests' = requests + 1
\* the step sends no response and broadcasts nothing
Quiet ==
    /\ resp' = NoResponse
    /\ bcast' = <<>>

\* the handler answered without broadcasting
Answer(r) ==
    /\ Accept
    /\ resp' = r
    /\ bcast' = <<>>
    /\ UNCHANGED <<clients, sent, inflight, files, writeFailed>>

\* the handler broadcast an event and answered
BroadcastAnswer(event, r) ==
    /\ Accept
    /\ sent' = broadcastToAll(sent, clients, event)
    /\ resp' = r
    /\ bcast' = <<event>>
    /\ UNCHANGED <<clients, inflight, files, writeFailed>>

\* the handler called saveToFile(file, content) and is suspended on its await;
\* events and answer are what it does when it resumes
Suspend(op, file, content, events, answer) ==
    /\ Accept
    /\ Len(inflight) < MaxInflight
    /\ inflight' = Append(inflight, [op |-> op, file |-> file, content |-> content,
                                     events |-> events, answer |-> answer])
    /\ Quiet
    /\ UNCHANGED <<clients, sent, files, writeFailed>>

StoreUnchanged == UNCHANGED <<store, appended, issued, ret>>

\* wss.on("connection"): a channel is one WebSocket, connected once
Connect(ch) ==
    /\ clients[ch] = "absent"
    /\ \A c \in Channels : c < ch => clients[c] # "absent"
    /\ clients' = [clients EXCEPT ![ch] = "open"]
    /\ sent' = [sent EXCEPT ![ch] = sendInitialData(store)]
    /\ Accept /\ Quiet
    /\ UNCHANGED <<inflight, files, writeFailed>>
    /\ StoreUnchanged /\ UNCHANGED clientVars

\* the channel starts closing (readyState CLOSING), then is closed and removed
\* from wss.clients
CloseStart(ch) ==
    /\ clients[ch] = "open"
    /\ clients' = [clients EXCEPT ![ch] = "closing"]
    /\ Accept /\ Quiet
    /\ UNCHANGED <<sent, inflight, files, writeFailed>>
    /\ StoreUnchanged /\ UNCHANGED clientVars
CloseEnd(ch) ==
    /\ clients[ch] = "closing"
    /\ clients' = [clients EXCEPT ![ch] = "closed"]
    /\ Accept /\ Quiet
    /\ UNCHANGED <<sent, inflight, files, writeFailed>>
    /\ StoreUnchanged /\ UNCHANGED clientVars

\* POST /api/accounts
PostAccounts ==
    \E a \in AccountInputs, defect \in Defects :
        LET body == AccountBody(a, defect) IN
        IF ~SchemaOk(body, AccountFieldType, AccountOptional)
        THEN /\ Answer(Response("postAccount", Request(defect, 0, ""), 400, Message("Invalid account data")))
             /\ StoreUnchanged /\ UNCHANGED clientVars
        ELSE LET res == createAccount(store, Parsed(body, AccountFieldType)) IN
             /\ Room(1, MaxIssued)
             /\ store' = res.s
             /\ Created("accounts", res)
             /\ Suspend("postAccount", "accounts", getAccounts(res.s), <<>>,
                        <<Response("postAccount", Request(defect, 0, ""), 201, res.r)>>)
             /\ UNCHANGED <<ret, clientVars>>

\* PUT /api/accounts/:id
PutAccounts ==
    \E id \in IdsToTry(store.accountId), u \in AccountUpdates, defect \in UpdateDefects :
        LET body == AccountUpdateBody(u, defect) IN
        IF ~PartialOk(body, AccountFieldType)
        THEN /\ Answer(Response("putAccount", Request(defect, id, ""), 400, Message("Invalid account data")))
             /\ StoreUnchanged /\ UNCHANGED clientVars
        ELSE LET res == updateAccount(store, id, Parsed(body, AccountFieldType)) IN
             IF res.r = Undefined
             THEN /\ Answer(Response("putAccount", Request(defect, id, ""), 404, Message("Account not found")))
                  /\ StoreUnchanged /\ UNCHANGED clientVars
             ELSE /\ store' = res.s
                  /\ Suspend("putAccount", "accounts", getAccounts(res.s), <<>>,
                             <<Response("putAccount", Request(defect, id, ""), 200, res.r)>>)
                  /\ UNCHANGED <<appended, issued, ret, clientVars>>

\* DELETE /api/accounts/:id
DeleteAccounts ==
    \E id \in IdsToTry(store.accountId) :
        LET res == deleteAccount(store, id) IN
        IF ~res.r
        THEN /\ Answer(Response("deleteAccount", Request("none", id, ""), 404, Message("Account not found")))
             /\ StoreUnchanged /\ UNCHANGED clientVars
        ELSE /\ store' = res.s
             /\ Suspend("deleteAccount", "accounts", getAccounts(res.s), <<>>,
                        <<Response("deleteAccount", Request("none", id, ""), 204, NoBody)>>)
             /\ UNCHANGED <<appended, issued, ret, clientVars>>

\* GET /api/accounts
GetAccounts ==
    /\ Answer(Response("getAccounts", NoRequest, 200, getAccounts(store)))
    /\ StoreUnchanged /\ UNCHANGED clientVars

\* GET /api/accounts as the later revision of the routes has it (part_000): the
\* accounts come from a file at a hardcoded path outside the config folder.
\* The server never writes that file: what it holds at the time of the read is
\* the environment's choice.  Of an account the id, name, broker, apiKey,
\* apiSecret and active fields are modelled.
Pick(acc, first, second) ==
    IF first \in DOMAIN acc THEN acc[first]
    ELSE IF second \in DOMAIN acc THEN acc[second] ELSE Undefined
transformedAccounts(rawAccounts) ==
    [index \in 1..Len(rawAccounts) |->
        LET acc == rawAccounts[index] IN
        [id        |-> IF "id" \in DOMAIN acc THEN acc.id ELSE index,
         name      |-> Pick(acc, "Name", "name"),
         broker    |-> Pick(acc, "Broker", "broker"),
         apiKey    |-> Pick(acc, "ApiKey", "apiKey"),
         apiSecret |-> Pick(acc, "ApiSecret", "apiSecret"),
         active    |-> IF "active" \in DOMAIN acc THEN acc.active ELSE TRUE]]
RawAccount == [Name |-> "Acct1", Broker |-> "IB", ApiKey |-> "k", ApiSecret |-> "s"]
HardcodedAccountsFile ==
    {[exists |-> FALSE, parses |-> FALSE, rawAccounts |-> <<>>],
     [exists |-> TRUE,  parses |-> FALSE, rawAccounts |-> <<>>],
     [exists |-> TRUE,  parses |-> TRUE,  rawAccounts |-> <<>>],
     [exists |-> TRUE,  parses |-> TRUE,  rawAccounts |-> <<RawAccount>>]}
GetAccountsFromFile ==
    \E file \in HardcodedAccountsFile :
        /\ Answer(IF ~file.exists
                  THEN Response("getAccountsFromFile", NoRequest, 404,
                                Message("Accounts data file not found."))
                  ELSE IF ~file.parses
                  THEN Response("getAccountsFromFile", NoRequest, 500,
                                Message("Failed to parse accounts data."))
                  ELSE Response("getAccountsFromFile", NoRequest, 200,
                                transformedAccounts(file.rawAccounts)))
        /\ StoreUnchanged /\ UNCHANGED clientVars

\* POST /api/orders
PostOrders ==
    \E o \in OrderInputs, defect \in Defects :
        LET body == OrderBody(o, defect) IN
        IF ~SchemaOk(body, OrderFieldType, NoOptional)
        THEN /\ Answer(Response("postOrder", Request(defect, 0, ""), 400, Message("Invalid order data")))
             /\ StoreUnchanged /\ UNCHANGED clientVars
        ELSE LET res == createOrder(store, Parsed(body, OrderFieldType)) IN
             /\ Room(2, MaxIssued)
             /\ store' = res.s
             /\ Created("orders", res)
             /\ BroadcastAnswer(Frame("orderAdded", res.r),
                                Response("postOrder", Request(defect, 0, ""), 201, res.r))
             /\ UNCHANGED <<ret, clientVars>>

\* PUT /api/orders/:id
PutOrders ==
    \E id \in IdsToTry(store.orderId), u \in OrderUpdates, defect \in UpdateDefects :
        LET body == OrderUpdateBody(u, defect) IN
        IF ~PartialOk(body, OrderFieldType)
        THEN /\ Answer(Response("putOrder", Request(defect, id, ""), 400, Message("Invalid order data")))
             /\ StoreUnchanged /\ UNCHANGED clientVars
        ELSE LET res == updateOrder(store, id, Parsed(body, OrderFieldType)) IN
             IF res.r = Undefined
             THEN /\ Answer(Response("putOrder", Request(defect, id, ""), 404, Message("Order not found")))
                  /\ StoreUnchanged /\ UNCHANGED clientVars
             ELSE /\ Room(1, MaxIssued)
                  /\ store' = res.s
                  /\ Logged(res)
                  /\ BroadcastAnswer(Frame("orderUpdated", res.r),
                                     Response("putOrder", Request(defect, id, ""), 200, res.r))
                  /\ UNCHANGED <<ret, clientVars>>

\* DELETE /api/orders/:id
DeleteOrders ==
    \E id \in IdsToTry(store.orderId) :
        LET res == deleteOrder(store, id) IN
        IF ~res.r
        THEN /\ store' = res.s
             /\ Logged(res)
             /\ Answer(Response("deleteOrder", Request("none", id, ""), 404, Message("Order not found")))
             /\ UNCHANGED <<ret, clientVars>>
        ELSE /\ Room(1, MaxIssued)
             /\ store' = res.s
             /\ Logged(res)
             /\ BroadcastAnswer(Frame("orderDeleted", [id |-> id]),
                                Response("deleteOrder", Request("none", id, ""), 204, NoBody))
             /\ UNCHANGED <<ret, clientVars>>

\* GET /api/orders
GetOrders ==
    /\ Answer(Response("getOrders", NoRequest, 200, getOrders(store)))
    /\ StoreUnchanged /\ UNCHANGED clientVars

\* GET /api/logs
GetLogs ==
    /\ Answer(Response("getLogs", NoRequest, 200, getLogs(store)))
    /\ StoreUnchanged /\ UNCHANGED clientVars

\* POST /api/logs
PostLogs ==
    \E l \in LogInputs, defect \in Defects :
        LET body == LogBody(l, defect) IN
        IF ~SchemaOk(body, LogFieldType, NoOptional)
        THEN /\ Answer(Response("postLog", Request(defect, 0, ""), 400, Message("Invalid log data")))
             /\ StoreUnchanged /\ UNCHANGED clientVars
        ELSE LET res == createLog(store, Parsed(body, LogFieldType)) IN
             /\ Room(1, MaxIssued)
             /\ store' = res.s
             /\ Logged(res)
             /\ BroadcastAnswer(Frame("logAdded", res.r),
                                Response("postLog", Request(defect, 0, ""), 201, res.r))
             /\ UNCHANGED <<ret, clientVars>>

\* (await storage.getSetting(type))?.data
DataOf(setting) == IF setting = Undefined THEN Undefined ELSE setting.data

\* POST /api/settings/:type
PostSettings ==
    \E type \in SettingTypesTried, data \in SettingData :
        IF type \notin SettingTypes
        THEN /\ Answer(Response("postSetting", Request("none", 0, type), 400, Message("Invalid setting type")))
             /\ StoreUnchanged /\ UNCHANGED clientVars
        ELSE LET res == createOrUpdateSetting(store, type, data)
                 allSettings == [global |-> DataOf(getSetting(res.s, "global")),
                                 daily  |-> DataOf(getSetting(res.s, "daily"))]
             IN
             /\ store' = res.s
             /\ Suspend("postSetting", "inputs", allSettings,
                        <<Frame("settingUpdated", [type |-> type, data |-> res.r.data])>>,
                        <<Response("postSetting", Request("none", 0, type), 200, res.r.data)>>)
             /\ UNCHANGED <<appended, issued, ret, clientVars>>

\* the whole state is written to the file
programStateSnapshot_whole(newState) == newState
\* { running: newState.running }, the content of programState.json
programStateSnapshot(newState) == [running |-> newState.running]

\* POST /api/program-state/toggle
PostToggle ==
    LET res == toggleProgramState(store) IN
    /\ Room(1, MaxIssued)
    /\ store' = res.s
    /\ Logged(res)
    /\ Suspend("postToggle", "programState", programStateSnapshot(res.r),
               <<Frame("programStateUpdated", res.r)>>,
               <<Response("postToggle", NoRequest, 200, res.r)>>)
    /\ UNCHANGED <<ret, clientVars>>

ClientMessageTypes == {"toggleProgramState", "ping"}

\* ws.on("message")
WsMessage(ch) ==
    \E type \in ClientMessageTypes :
        /\ clients[ch] = "open"
        /\ IF type = "toggleProgramState"
           THEN LET res == toggleProgramState(store) IN
                /\ Room(1, MaxIssued)
                /\ store' = res.s
                /\ Logged(res)
                /\ Suspend("wsToggle", "programState", programStateSnapshot(res.r),
                           <<Frame("programStateUpdated", res.r)>>, <<>>)
                /\ UNCHANGED <<ret, clientVars>>
           ELSE /\ Accept /\ Quiet
                /\ UNCHANGED <<clients, sent, inflight, files, writeFailed>>
                /\ StoreUnchanged /\ UNCHANGED clientVars

\* a saveToFile that lets the error of a failed write escape
saveToFile_throw(fs, filePath, data, written) ==
    [files |-> IF written THEN [fs EXCEPT ![filePath] = <<data>>] ELSE fs,
     threw |-> ~written]
\* saveToFile(filePath, data): the write succeeds, or it fails and the error is
\* logged inside the function; either way the promise resolves
saveToFile(fs, filePath, data, written) ==
    [files |-> IF written THEN [fs EXCEPT ![filePath] = <<data>>] ELSE fs,
     threw |-> FALSE]

\* the answer of a route's catch block
Failed(answer) ==
    Response(answer.op, answer.req, 500, Message("Failed"))

\* saveToFile settles and the suspended handler runs to its end: it broadcasts
\* and answers, unless the await threw, in which case its catch block answers
\* 500 (a route) or logs the error (the message handler)
Resume(i) ==
    \E written \in BOOLEAN :
        LET h     == inflight[i]
            saved == saveToFile(files, h.file, h.content, written)
        IN
        /\ i \in 1..Len(inflight)
        /\ files' = saved.files
        /\ writeFailed' = IF written THEN writeFailed ELSE writeFailed \cup {h.file}
        /\ inflight' = [j \in 1..(Len(inflight) - 1) |->
                           IF j < i THEN inflight[j] ELSE inflight[j + 1]]
        /\ sent' = IF h.events # <<>> /\ ~saved.threw
                   THEN broadcastToAll(sent, clients, h.events[1]) ELSE sent
        /\ bcast' = IF saved.threw THEN <<>> ELSE h.events
        /\ resp' = IF h.answer = <<>> THEN NoResponse
                   ELSE IF saved.threw THEN Failed(h.answer[1]) ELSE h.answer[1]
        /\ UNCHANGED <<clients, requests>>
        /\ StoreUnchanged /\ UNCHANGED clientVars

\* setupSimulatedUpdates: the band, quote and log timers
SimulatedBand ==
    \E data \in BandInputs :
        LET currentBand == getCurrentBandData(store)
            res == updateBandData(store, [premium   |-> data.premium,
                                          upperBand |-> currentBand.upperBand,
                                          lowerBand |-> currentBand.lowerBand])
        IN
        /\ currentBand # Undefined
        /\ Room(1, MaxIssued)
        /\ Accept
        /\ store' = res.s
        /\ AppendedBand(res)
        /\ sent' = broadcastToAll(sent, clients, Frame("bandDataUpdated", res.r))
        /\ bcast' = <<Frame("bandDataUpdated", res.r)>>
        /\ resp' = NoResponse
        /\ UNCHANGED <<clients, inflight, files, writeFailed, ret, clientVars>>

SimulatedQuote ==
    \E data \in QuoteInputs :
        LET res == updateQuote(store, data) IN
        /\ data.symbol = DefaultSymbol
        /\ getCurrentQuote(store, DefaultSymbol) # Undefined
        /\ Room(1, MaxIssued)
        /\ Accept
        /\ store' = res.s
        /\ AppendedQuote(res)
        /\ sent' = broadcastToAll(sent, clients, Frame("quoteUpdated", res.r))
        /\ bcast' = <<Frame("quoteUpdated", res.r)>>
        /\ resp' = NoResponse
        /\ UNCHANGED <<clients, inflight, files, writeFailed, ret, clientVars>>

SimulatedLog ==
    \E log \in LogInputs :
        LET res == createLog(store, log) IN
        /\ Room(1, MaxIssued)
        /\ Accept
        /\ store' = res.s
        /\ Logged(res)
        /\ sent' = broadcastToAll(sent, clients, Frame("logAdded", res.r))
        /\ bcast' = <<Frame("logAdded", res.r)>>
        /\ resp' = NoResponse
        /\ UNCHANGED <<clients, inflight, files, writeFailed, ret, clientVars>>

-----------------------------------------------------------------------------
(* The WebSocket client (src/unnamed/part_007).  A SignalRConnection holds *)
(* one socket at a time; reconnectTimeout is one module-level handle that  *)
(* every connection of the page shares.  A pending setTimeout callback is  *)
(* [id, conn, delay]; ids of timers no longer pending are handed out again *)
(* only after the one handle that could name them has been overwritten.    *)

Connections == {1, 2}

NoConnection ==
    [socket |-> "none", handlers |-> "none", isConnected |-> FALSE,
     reconnectAttempts |-> 0]

TimerIds(ts) == {timer.id : timer \in ts}

\* clearTimeout(handle): a null handle or one of a timer that ran is ignored
clearTimeout(ts, handle) == {timer \in ts : timer.id # handle}

\* delay = Math.min(30000, Math.pow(2, connection.reconnectAttempts) * 1000)
ReconnectDelay_uncapped(attempts) == (2 ^ attempts) * BaseDelay
ReconnectDelay(attempts) == Min(MaxDelay, (2 ^ attempts) * BaseDelay)

\* scheduleReconnect(connection): the pending timers and the handle after it
scheduleReconnect(ts, handle, c, connection) ==
    LET cleared == IF handle # 0 THEN clearTimeout(ts, handle) ELSE ts
        id      == CHOOSE n \in 1..(Cardinality(cleared) + 1) : n \notin TimerIds(cleared)
    IN  IF connection.reconnectAttempts < MaxAttempts
        THEN [timers |-> cleared \cup {[id |-> id, conn |-> c,
                                        delay |-> ReconnectDelay(connection.reconnectAttempts)]},
              reconnectTimeout |-> id]
        ELSE [timers |-> cleared, reconnectTimeout |-> handle]

\* connectToSignalR(callbacks)
ConnectToSignalR(c) ==
    /\ conn[c] = NoConnection
    /\ conn' = [conn EXCEPT ![c] = [socket |-> "connecting", handlers |-> "initial",
                                    isConnected |-> FALSE, reconnectAttempts |-> 0]]
    /\ UNCHANGED <<reconnectTimeout, timers, disconnected, viewerVars, storeVars, serverVars>>

\* socket.onopen: the first socket's handler also clears the shared timer
SocketOpen(c) ==
    /\ conn[c].socket = "connecting"
    /\ conn' = [conn EXCEPT ![c].socket = "open", ![c].isConnected = TRUE,
                            ![c].reconnectAttempts = 0]
    /\ IF conn[c].handlers = "initial" /\ reconnectTimeout # 0
       THEN /\ timers' = clearTimeout(timers, reconnectTimeout)
            /\ reconnectTimeout' = 0
       ELSE UNCHANGED <<reconnectTimeout, timers>>
    /\ UNCHANGED <<disconnected, viewerVars, storeVars, serverVars>>

\* socket.onclose: the connection attempt failed, the open socket was lost, or
\* a close() completed
SocketClose(c) ==
    LET connection == [conn[c] EXCEPT !.socket = "closed", !.isConnected = FALSE]
        scheduled  == scheduleReconnect(timers, reconnectTimeout, c, connection)
    IN  /\ conn[c].socket \in {"connecting", "open", "closing"}
        /\ conn' = [conn EXCEPT ![c] = connection]
        /\ timers' = scheduled.timers
        /\ reconnectTimeout' = scheduled.reconnectTimeout
        /\ UNCHANGED <<disconnected, viewerVars, storeVars, serverVars>>

\* the setTimeout callback of scheduleReconnect runs
ReconnectTimer(timer) ==
    /\ timer \in timers
    /\ timers' = timers \ {timer}
    /\ conn' = [conn EXCEPT ![timer.conn].socket = "connecting",
                            ![timer.conn].handlers = "reconnect",
                            ![timer.conn].reconnectAttempts = @ + 1]
    /\ UNCHANGED <<reconnectTimeout, disconnected, viewerVars, storeVars, serverVars>>

\* disconnectFromSignalR(connection)
DisconnectFromSignalR(c) ==
    /\ conn[c] # NoConnection
    /\ conn' = [conn EXCEPT ![c].socket =
                   IF @ \in {"connecting", "open"} THEN "closing" ELSE @]
    /\ IF reconnectTimeout # 0
       THEN /\ timers' = clearTimeout(timers, reconnectTimeout)
            /\ reconnectTimeout' = 0
       ELSE UNCHANGED <<reconnectTimeout, timers>>
    /\ disconnected' = disconnected \cup {c}
    /\ UNCHANGED <<viewerVars, storeVars, serverVars>>

-----------------------------------------------------------------------------
(* The viewer.  socket.onmessage of src/unnamed/part_007 parses a frame and *)
(* routes it by type to one of twelve callbacks; the callbacks of          *)
(* src/client/src/contexts/TradingContext.tsx update the React state, here *)
(* the record mirror.  A later revision of the context                     *)
(* (src/unnamed/part_008) keeps its orders with string ids; its orders     *)
(* state is ordersStringId.  sendSignalRMessage is the one way out.        *)

Null == [tag |-> "null"]

\* JSON.stringify of a value, and a text that is not JSON
stringify(value) == [json |-> value]
Unparsable == [junk |-> "<html>"]
\* JSON.parse: the value, or a SyntaxError
JSONparse(text) ==
    IF "json" \in DOMAIN text THEN [ok |-> TRUE, value |-> text.json]
    ELSE [ok |-> FALSE, value |-> Null]

\* the useState initial values
InitialMirror ==
    [orders |-> <<>>, positions |-> <<>>, logs |-> <<>>, serviceStatus |-> <<>>,
     bandData |-> Null, quoteData |-> Null, programRunning |-> FALSE,
     globalSettings |-> Null, dailyParameters |-> Null]

\* .slice(0, 1000)
MirrorCap == 1000

onBandDataUpdated(m, data) == [m EXCEPT !.bandData = data]
onPositionsUpdated(m, data) == [m EXCEPT !.positions = data]
onOrdersUpdated(m, data) == [m EXCEPT !.orders = data]
onOrderAdded(m, data) == [m EXCEPT !.orders = Append(m.orders, data)]
\* prev.map(order => order.id === data.id ? data : order)
onOrderUpdated(m, data) ==
    [m EXCEPT !.orders = [i \in 1..Len(m.orders) |->
                             IF m.orders[i].id = data.id THEN data ELSE m.orders[i]]]
\* prev.filter(order => order.id !== data.id)
onOrderDeleted(m, data) ==
    [m EXCEPT !.orders = SelectSeq(m.orders, LAMBDA order : order.id # data.id)]
onServiceStatusUpdated(m, data) == [m EXCEPT !.serviceStatus = data]
\* [data, ...prev].slice(0, 1000)
onLogAdded(m, data) ==
    LET newLogs == <<data>> \o m.logs
    IN  [m EXCEPT !.logs = SubSeq(newLogs, 1, Min(Len(newLogs), MirrorCap))]
onLogsUpdated(m, data) == [m EXCEPT !.logs = data]
onProgramStateUpdated(m, data) == [m EXCEPT !.programRunning = data.running]
onQuoteUpdated(m, data) == [m EXCEPT !.quoteData = data]
onSettingUpdated(m, data) ==
    IF data.type = "global" THEN [m EXCEPT !.globalSettings = data.data]
    ELSE IF data.type = "daily" THEN [m EXCEPT !.dailyParameters = data.data]
    ELSE m

KnownTypes ==
    {"bandDataUpdated", "positionsUpdated", "ordersUpdated", "orderAdded",
     "orderUpdated", "orderDeleted", "serviceStatusUpdated", "logAdded",
     "logsUpdated", "programStateUpdated", "quoteUpdated", "settingUpdated"}

\* the switch of socket.onmessage
Route(m, message) ==
    CASE message.type = "bandDataUpdated"      -> onBandDataUpdated(m, message.data)
      [] message.type = "positionsUpdated"     -> onPositionsUpdated(m, message.data)
      [] message.type = "ordersUpdated"        -> onOrdersUpdated(m, message.data)
      [] message.type = "orderAdded"           -> onOrderAdded(m, message.data)
      [] message.type = "orderUpdated"         -> onOrderUpdated(m, message.data)
      [] message.type = "orderDeleted"         -> onOrderDeleted(m, message.data)
      [] message.type = "serviceStatusUpdated" -> onServiceStatusUpdated(m, message.data)
      [] message.type = "logAdded"             -> onLogAdded(m, message.data)
      [] message.type = "logsUpdated"          -> onLogsUpdated(m, message.data)
      [] message.type = "programStateUpdated"  -> onProgramStateUpdated(m, message.data)
      [] message.type = "quoteUpdated"         -> onQuoteUpdated(m, message.data)
      [] message.type = "settingUpdated"       -> onSettingUpdated(m, message.data)
      [] OTHER                                 -> m

\* a handler that gives up its state on a frame it cannot parse
onmessage_reset(m, text) ==
    LET parsed == JSONparse(text) IN
    IF ~parsed.ok THEN InitialMirror
    ELSE IF parsed.value = Null THEN m
    ELSE IF "type" \notin DOMAIN parsed.value THEN m
    ELSE Route(m, parsed.value)
\* socket.onmessage: a SyntaxError of JSON.parse and the TypeError of reading
\* the type of null are caught and logged; a message without a type, or with
\* one that is not known, takes the default branch, which warns
onmessage(m, text) ==
    LET parsed == JSONparse(text) IN
    IF ~parsed.ok THEN m
    ELSE IF parsed.value = Null THEN m
    ELSE IF "type" \notin DOMAIN parsed.value THEN m
    ELSE Route(m, parsed.value)

\* String(v) and a number, as typed JS values; === on typed values
String(v) == Json("string", ToString(v))
Number(n) == Json("number", n)
StrictEquals(a, b) == a.t = b.t /\ a.v = b.v

\* a JS number with a decimal fraction: mantissa m scaled by 10^-e, without
\* trailing zeros in the fraction; NaN is a value of its own
Float(m, e) == [nan |-> FALSE, m |-> m, e |-> e]
FloatNaN == [nan |-> TRUE, m |-> 0, e |-> 0]
isNaN(x) == x.nan
RECURSIVE Normal(_)
Normal(x) ==
    IF ~x.nan /\ x.e > 0 /\ x.m % 10 = 0 THEN Normal(Float(x.m \div 10, x.e - 1)) ELSE x

RECURSIVE SkipSpaces(_)
SkipSpaces(str) ==
    IF str # <<>> /\ Head(str) = " " THEN SkipSpaces(Tail(str)) ELSE str
RECURSIVE DigitsLen(_)
\* the length of the longest prefix of decimal digits of str
DigitsLen(str) ==
    IF str = <<>> \/ Head(str) \notin DOMAIN DigitValue THEN 0
    ELSE 1 + DigitsLen(Tail(str))
RECURSIVE Pow10(_)
Pow10(k) == IF k = 0 THEN 1 ELSE 10 * Pow10(k - 1)

\* parseFloat(str): leading white space, an optional sign, the longest prefix
\* that reads as a decimal literal (digits, optionally a point and digits);
\* what follows is ignored; NaN when no digit is read.  Exponents and
\* Infinity are outside the texts tried
parseFloat(str) ==
    LET trimmed == SkipSpaces(str)
        signed  == trimmed # <<>> /\ Head(trimmed) \in {"-", "+"}
        sign    == IF signed /\ Head(trimmed) = "-" THEN 0 - 1 ELSE 1
        body    == IF signed THEN Tail(trimmed) ELSE trimmed
        w       == DigitsLen(body)
        rest    == SubSeq(body, w + 1, Len(body))
        pointed == rest # <<>> /\ Head(rest) = "."
        f       == IF pointed THEN DigitsLen(Tail(rest)) ELSE 0
        whole   == DigitsPrefix(body, 0)
        frac    == IF pointed THEN DigitsPrefix(Tail(rest), 0) ELSE 0
    IN  IF w = 0 /\ f = 0 THEN FloatNaN
        ELSE Normal(Float(sign * (whole * Pow10(f) + frac), f))

\* the value of a field as received: a string (its characters), a number,
\* null, or undefined when the field is missing
Str(chars) == [t |-> "string", s |-> chars, n |-> FloatNaN]
Numeric(x) == [t |-> "number", s |-> <<>>, n |-> x]
NullField == [t |-> "null", s |-> <<>>, n |-> FloatNaN]
Missing == [t |-> "undefined", s |-> <<>>, n |-> FloatNaN]
\* a stored numeric field: a number (NaN included) or null
Stored(x) == [null |-> FALSE, n |-> x]
StoredNull == [null |-> TRUE, n |-> FloatNaN]

\* rawX.replace(/,/g, '')
stripCommas(chars) == SelectSeq(chars, LAMBDA ch : ch # ",")
RECURSIVE Spell(_)
\* the decimal digits of a natural number
Spell(k) ==
    LET d == CHOOSE ch \in DOMAIN DigitValue : DigitValue[ch] = k % 10 IN
    IF k < 10 THEN <<d>> ELSE Append(Spell(k \div 10), d)
\* ToString of the argument of parseFloat: the text of a number, "null",
\* "undefined"
toText(raw) ==
    CASE raw.t = "string"    -> raw.s
      [] raw.t = "null"      -> <<"n", "u", "l", "l">>
      [] raw.t = "undefined" -> <<"u", "n", "d", "e", "f", "i", "n", "e", "d">>
      [] raw.t = "number"    ->
            IF raw.n.nan THEN <<"N", "a", "N">>
            ELSE LET a == IF raw.n.m < 0 THEN 0 - raw.n.m ELSE raw.n.m
                     whole == Spell(a \div Pow10(raw.n.e))
                     fr    == Spell(Pow10(raw.n.e) + (a % Pow10(raw.n.e)))
                 IN  (IF raw.n.m < 0 THEN <<"-">> ELSE <<>>) \o whole
                     \o (IF raw.n.e > 0 THEN <<".">> \o Tail(fr) ELSE <<>>)

\* the guarded conversion of price, quantityOrdered, quantityLeft (orders) and
\* price (positions): commas stripped from a string, parseFloat of a string,
\* a number as it is, NaN for anything else; then null in place of NaN
guardedNumber(raw) ==
    LET temp == IF raw.t = "string" THEN parseFloat(stripCommas(raw.s))
                ELSE IF raw.t = "number" THEN raw.n ELSE FloatNaN
    IN  IF ~isNaN(temp) THEN Stored(temp) ELSE StoredNull
\* the conversion of quantity and pnl of a position: parseFloat(p.quantity)
bareNumber(raw) == Stored(parseFloat(toText(raw)))

\* parseOrderFields of loadInitialData: the numeric fields of an order of the
\* GET /api/orders response
parseOrderFields(orderInput) ==
    [id |-> String(orderInput.id),
     price |-> guardedNumber(orderInput.price),
     quantity |-> guardedNumber(orderInput.quantityOrdered),
     quantityLeft |-> guardedNumber(orderInput.quantityLeft)]

\* parsePosition of onPositionsUpdated: a position without an id (the empty
\* sequence) is given a random one
parsePosition(p, uuid) ==
    [id |-> IF p.id = <<>> THEN Json("string", uuid) ELSE String(p.id[1]),
     quantity |-> bareNumber(p.quantity),
     avgPrice |-> guardedNumber(p.price),
     pnl |-> bareNumber(p.pnl)]

\* parseOrder / parseOrderForAdd of the later revision: the order as received,
\* with a string id and its price, a number, as it is; the server's orders carry accountId and quantity, not
\* account, quantityOrdered and quantityLeft, which therefore come out empty
parseOrder(o) ==
    Spread(o, [id |-> String(o.id), account |-> "", price |-> o.price,
               quantity |-> Null, quantityLeft |-> Null])

\* the server sends the orders as an array
onOrdersUpdatedStringId(os, data) == [i \in 1..Len(data) |-> parseOrder(data[i])]
onOrderAddedStringId(os, data) == Append(os, parseOrder(data))
onOrderUpdatedStringId(os, data) ==
    LET updatedOrder ==
            [id |-> String(data.id), account |-> "", symbol |-> data.symbol,
             quantity |-> Null, quantityLeft |-> Null,
             price |-> data.price, side |-> data.side,
             status |-> data.status]
    IN  [i \in 1..Len(os) |->
            IF StrictEquals(os[i].id, updatedOrder.id) THEN updatedOrder ELSE os[i]]
\* prev.filter(order => order.id !== data.id): the id of the event is the
\* number the route parsed from the path
onOrderDeletedStringId(os, data) ==
    SelectSeq(os, LAMBDA order : ~StrictEquals(order.id, Number(data.id)))

\* socket.onmessage with the callbacks of the later revision, orders only
onmessageStringId(os, text) ==
    LET parsed == JSONparse(text) IN
    IF ~parsed.ok THEN os
    ELSE IF parsed.value = Null THEN os
    ELSE IF "type" \notin DOMAIN parsed.value THEN os
    ELSE LET message == parsed.value IN
         CASE message.type = "ordersUpdated" -> onOrdersUpdatedStringId(os, message.data)
           [] message.type = "orderAdded"    -> onOrderAddedStringId(os, message.data)
           [] message.type = "orderUpdated"  -> onOrderUpdatedStringId(os, message.data)
           [] message.type = "orderDeleted"  -> onOrderDeletedStringId(os, message.data)
           [] OTHER                          -> os

NothingReceived == [n |-> 0, text |-> stringify(Null), before |-> stringify(Null)]

\* a frame arrives on the open socket of the connection
Receive(c, text, max) ==
    /\ conn[c].socket = "open"
    /\ received.n < max
    /\ received' = [n |-> received.n + 1, text |-> text, before |-> received.text]
    /\ mirror' = onmessage(mirror, text)
    /\ ordersStringId' = onmessageStringId(ordersStringId, text)
    /\ UNCHANGED <<conn, reconnectTimeout, timers, disconnected, positionsStringId, submitted, wire,
                   storeVars, serverVars>>

\* the one outgoing message
ToggleMessage == [type |-> "toggleProgramState", data |-> Null]

\* sendSignalRMessage(connection, type, data): socket.send transmits on an
\* open socket, discards on a closing or closed one and throws on a
\* connecting one
SendSignalRMessage(c, max) ==
    /\ conn[c] # NoConnection
    /\ Len(submitted) < max
    /\ submitted' = Append(submitted, [conn |-> c, socket |-> conn[c].socket])
    /\ wire' = IF conn[c].isConnected /\ conn[c].socket = "open"
               THEN Append(wire, [conn |-> c, text |-> stringify(ToggleMessage)])
               ELSE wire
    /\ UNCHANGED <<conn, reconnectTimeout, timers, disconnected, mirror, ordersStringId,
                   positionsStringId, received, page,
                   storeVars, serverVars>>

-----------------------------------------------------------------------------
(* The page.  loadInitialData fetches the collections one after the other   *)
(* over HTTP while the socket delivers the frames of its channel in the     *)
(* order sent; the two streams are independent of each other.               *)

\* the fetches of loadInitialData, in order
Fetches ==
    <<"accounts", "orders", "positions", "logs", "serviceStatus", "bandData",
      "quote", "programState", "global", "daily">>
\* the page after mount: loadInitialData is about to send its first fetch, no
\* frame has been taken from any channel
Mounted == [at |-> 1, response |-> <<>>, delivered |-> [ch \in Channels |-> 0]]
LoadComplete == Len(Fetches) + 1

\* defaultGlobalSettings, defaultDailyParameters
DefaultGlobalSettings == [defaults |-> "global"]
DefaultDailyParameters == [defaults |-> "daily"]

Ok(body) == [ok |-> TRUE, body |-> body]
NotFound == [ok |-> FALSE, body |-> Message("not found")]
\* the answer of the GET route to a fetch of loadInitialData
ServeFetch(s, what) ==
    CASE what = "accounts"      -> Ok(getAccounts(s))
      [] what = "orders"        -> Ok(getOrders(s))
      [] what = "positions"     -> Ok(getPositions(s))
      [] what = "logs"          -> Ok(getLogs(s))
      [] what = "serviceStatus" -> Ok(getServiceStatuses(s))
      [] what = "bandData"      -> Ok(getCurrentBandData(s))
      [] what = "quote"         -> IF getCurrentQuote(s, DefaultSymbol) = Undefined
                                   THEN NotFound
                                   ELSE Ok(getCurrentQuote(s, DefaultSymbol))
      [] what = "programState"  -> Ok(getProgramState(s))
      [] what \in SettingTypes  -> IF getSetting(s, what) = Undefined THEN NotFound
                                   ELSE Ok(getSetting(s, what).data)

\* response.json() throws on the empty body that res.json(undefined) sends
JsonThrows(what, r) == what = "bandData" /\ r.ok /\ r.body = Undefined
\* what loadInitialData does with the response of a fetch
Loaded(m, what, r) ==
    CASE what = "accounts"      -> m
      [] what = "orders"        -> IF r.ok THEN [m EXCEPT !.orders = r.body] ELSE m
      [] what = "positions"     -> IF r.ok THEN [m EXCEPT !.positions = r.body] ELSE m
      [] what = "logs"          -> IF r.ok THEN [m EXCEPT !.logs = r.body] ELSE m
      [] what = "serviceStatus" -> IF r.ok THEN [m EXCEPT !.serviceStatus = r.body] ELSE m
      [] what = "bandData"      -> IF r.ok THEN [m EXCEPT !.bandData = r.body] ELSE m
      [] what = "quote"         -> IF r.ok THEN [m EXCEPT !.quoteData = r.body] ELSE m
      [] what = "programState"  ->
            IF r.ok THEN [m EXCEPT !.programRunning = r.body.running] ELSE m
      [] what = "global"        ->
            [m EXCEPT !.globalSettings = IF r.ok THEN r.body ELSE DefaultGlobalSettings]
      [] what = "daily"         ->
            [m EXCEPT !.dailyParameters = IF r.ok THEN r.body ELSE DefaultDailyParameters]

\* the server answers the fetch loadInitialData is waiting for
FetchServed ==
    /\ page.at < LoadComplete /\ page.response = <<>>
    /\ page' = [page EXCEPT !.response = <<ServeFetch(store, Fetches[page.at])>>]
    /\ resp' = Response("loadInitialData", Request("none", 0, Fetches[page.at]),
                        IF ServeFetch(store, Fetches[page.at]).ok THEN 200 ELSE 404,
                        NoBody)
    /\ bcast' = <<>>
    /\ UNCHANGED <<clients, sent, inflight, files, writeFailed, requests>>
    /\ StoreUnchanged
    /\ UNCHANGED <<conn, reconnectTimeout, timers, disconnected, mirror, ordersStringId,
                   positionsStringId, received, submitted, wire>>

\* the response reaches the page: the state is set and the next fetch is sent;
\* a body that does not parse ends loadInitialData in its catch block
FetchArrives ==
    /\ page.response # <<>>
    /\ IF JsonThrows(Fetches[page.at], page.response[1])
       THEN /\ mirror' = mirror
            /\ page' = [page EXCEPT !.at = LoadComplete, !.response = <<>>]
       ELSE /\ mirror' = Loaded(mirror, Fetches[page.at], page.response[1])
            /\ page' = [page EXCEPT !.at = @ + 1, !.response = <<>>]
    /\ UNCHANGED <<conn, reconnectTimeout, timers, disconnected, ordersStringId,
                   positionsStringId, received, submitted, wire, storeVars, serverVars>>

\* the channel the page's newest socket is the other end of
CurrentChannel == CHOOSE ch \in Channels :
    /\ clients[ch] # "absent"
    /\ \A other \in Channels : clients[other] # "absent" => other <= ch

\* the next frame of the channel reaches the open socket of the connection
DeliverOn(c, ch) ==
    /\ clients[ch] # "absent" /\ ch = CurrentChannel
    /\ page.delivered[ch] < Len(sent[ch])
    /\ Receive(c, stringify(sent[ch][page.delivered[ch] + 1]), received.n + 1)
    /\ page' = [page EXCEPT !.delivered[ch] = @ + 1]

-----------------------------------------------------------------------------
(* Restart.  The module creates the store (new MemStorage(), which seeds    *)
(* its test data) and then calls initializeFromFiles, which replays the     *)
(* snapshot files into it.                                                  *)

\* an account as JSON.parse reads it from accounts.json
FileBody(account) ==
    [f \in DOMAIN account |->
        IF f \in DOMAIN AccountFieldType THEN Json(AccountFieldType[f], account[f])
        ELSE Json("number", account[f])]
RECURSIVE loadAccounts(_, _)
\* for (const account of storedAccounts): parse, createAccount; an invalid
\* account is logged and skipped
loadAccounts(s, storedAccounts) ==
    IF storedAccounts = <<>> THEN s
    ELSE LET body == FileBody(Head(storedAccounts)) IN
         IF SchemaOk(body, AccountFieldType, AccountOptional)
         THEN loadAccounts(createAccount(s, Parsed(body, AccountFieldType)).s,
                           Tail(storedAccounts))
         ELSE loadAccounts(s, Tail(storedAccounts))

\* initializeFromFiles on the store s, reading the files fs
initializeFromFiles(s, fs) ==
    LET s1 == IF fs.accounts # <<>> THEN loadAccounts(s, fs.accounts[1]) ELSE s
        s2 == IF fs.inputs # <<>> /\ fs.inputs[1].global # Undefined
              THEN createOrUpdateSetting(s1, "global", fs.inputs[1].global).s ELSE s1
        s3 == IF fs.inputs # <<>> /\ fs.inputs[1].daily # Undefined
              THEN createOrUpdateSetting(s2, "daily", fs.inputs[1].daily).s ELSE s2
    IN  IF /\ fs.programState # <<>>
           /\ getProgramState(s3) # Undefined
           /\ getProgramState(s3).running # fs.programState[1].running
        THEN toggleProgramState(s3).s
        ELSE s3

\* the process is restarted while no handler is suspended: every channel is
\* gone, the store is built anew and seeded from the files
Restart ==
    /\ inflight = <<>>
    /\ Accept
    /\ store' = initializeFromFiles(Constructor, files)
    /\ appended' = AppendedOf(store')
    /\ issued' = NoIssued
    /\ ret' = Ret("none", Undefined, Undefined)
    /\ clients' = [ch \in Channels |-> IF clients[ch] = "absent" THEN "absent" ELSE "closed"]
    /\ resp' = Response("restart", NoRequest, 0, NoBody)
    /\ bcast' = <<>>
    /\ UNCHANGED <<sent, inflight, files, writeFailed, clientVars>>

-----------------------------------------------------------------------------
(* Initial states *)

NoRet == Ret("none", Undefined, Undefined)

NoFiles == [accounts |-> <<>>, inputs |-> <<>>, programState |-> <<>>]

ServerIdle ==
    /\ clients = [ch \in Channels |-> "absent"]
    /\ sent = [ch \in Channels |-> <<>>]
    /\ inflight = <<>>
    /\ files = NoFiles
    /\ writeFailed = {}
    /\ resp = NoResponse
    /\ bcast = <<>>
    /\ requests = 0

ClientIdle ==
    /\ conn = [c \in Connections |-> NoConnection]
    /\ reconnectTimeout = 0
    /\ timers = {}
    /\ disconnected = {}
    /\ mirror = InitialMirror
    /\ ordersStringId = <<>>
    /\ positionsStringId = <<>>
    /\ received = NothingReceived
    /\ page = Mounted
    /\ submitted = <<>>
    /\ wire = <<>>

\* a fresh process: the store as its constructor leaves it
InitStore ==
    /\ store = Constructor
    /\ appended = AppendedOf(Constructor)
    /\ issued = NoIssued
    /\ ret = NoRet
    /\ ServerIdle
    /\ ClientIdle

NextStore ==
    \/ CreateAccount(MaxIssued) \/ UpdateAccount \/ DeleteAccount
    \/ CreateOrder(MaxIssued) \/ UpdateOrder(MaxIssued) \/ DeleteOrder(MaxIssued)
    \/ CreatePosition(MaxIssued) \/ DeletePosition
    \/ CreateLog(MaxIssued) \/ UpdateBandData(MaxIssued) \/ UpdateQuote(MaxIssued)
    \/ CreateOrUpdateSetting

SpecStore == InitStore /\ [][NextStore]_vars

RECURSIVE FillLogs(_, _)
RECURSIVE FillBand(_, _)
RECURSIVE FillQuotes(_, _)
\* the store after k more createLog / updateBandData / updateQuote calls
\* (the k calls are split in halves, and the store is read on entry, to keep
\* the evaluation shallow; a counter is never below 1)
FillLogs(s, k) ==
    IF k <= 0 \/ s.logId < 1 THEN s
    ELSE IF k = 1 THEN createLog(s, CHOOSE log \in LogInputs : TRUE).s
    ELSE FillLogs(FillLogs(s, k \div 2), k - (k \div 2))
FillBand(s, k) ==
    IF k <= 0 \/ s.bandDataId < 1 THEN s
    ELSE IF k = 1 THEN updateBandData(s, CHOOSE data \in BandInputs : TRUE).s
    ELSE FillBand(FillBand(s, k \div 2), k - (k \div 2))
FillQuotes(s, k) ==
    IF k <= 0 \/ s.quoteDataId < 1 THEN s
    ELSE IF k = 1 THEN updateQuote(s, CHOOSE data \in QuoteInputs :
                                          data.symbol = DefaultSymbol).s
    ELSE FillQuotes(FillQuotes(s, k \div 2), k - (k \div 2))

\* a process that has run until each history holds n entries (the band and
\* quote histories are seeded with one entry by the constructor)
Prefilled(n) == FillQuotes(FillBand(FillLogs(Constructor, n), n - 1), n - 1)

\* history lengths the process is started from: one entry, one below the cap
PrefillChoices == {1, HistoryCap - 1}

InitHistory ==
    /\ \E n \in PrefillChoices :
          /\ store = Prefilled(n)
          /\ appended = AppendedOf(Prefilled(n))
    /\ issued = NoIssued
    /\ ret = NoRet
    /\ ServerIdle
    /\ ClientIdle

NextHistory ==
    \/ CreateLog(MaxAppends) \/ CreateOrder(MaxAppends)
    \/ ToggleProgramState(MaxAppends)
    \/ UpdateBandData(MaxAppends) \/ UpdateQuote(MaxAppends)
    \/ GetBandDataHistory \/ GetQuoteHistory

SpecHistory == InitHistory /\ [][NextHistory]_vars

\* the running server: one fresh process, its routes, channels and timers
Init == InitStore

Next ==
    \/ \E ch \in Channels : Connect(ch) \/ CloseStart(ch) \/ CloseEnd(ch) \/ WsMessage(ch)
    \/ PostAccounts \/ PutAccounts \/ DeleteAccounts
    \/ GetAccounts \/ GetAccountsFromFile
    \/ PostOrders \/ PutOrders \/ DeleteOrders \/ GetOrders
    \/ GetLogs \/ PostLogs \/ PostSettings \/ PostToggle
    \/ \E i \in 1..Len(inflight) : Resume(i)
    \/ SimulatedBand \/ SimulatedQuote \/ SimulatedLog

Spec == Init /\ [][Next]_vars

\* the page's connections on their own: sockets open and close as the network
\* and the server decide
InitClient == InitStore

NextClient ==
    \/ \E c \in Connections :
          ConnectToSignalR(c) \/ SocketOpen(c) \/ SocketClose(c) \/ DisconnectFromSignalR(c)
    \/ \E timer \in timers : ReconnectTimer(timer)

SpecClient == InitClient /\ [][NextClient]_vars

\* the frames the viewer is fed: the snapshot and the events of a server whose
\* store holds one order, then a second, and three frames no server of this
\* repository sends
FirstOrder == CHOOSE o \in OrderInputs : o.accountId = 1
SecondOrder == CHOOSE o \in OrderInputs : o.accountId = 2
ViewerStore == createOrder(Constructor, FirstOrder).s
SnapshotFrames == sendInitialData(ViewerStore)
EventFrames ==
    LET added   == createOrder(ViewerStore, SecondOrder)
        filled1 == updateOrder(added.s, 1, CHOOSE u \in OrderUpdates : TRUE)
        filled2 == updateOrder(added.s, 2, CHOOSE u \in OrderUpdates : TRUE)
        logged  == createLog(added.s, CHOOSE log \in LogInputs : TRUE)
        setting == CHOOSE data \in SettingData : TRUE
    IN  <<Frame("orderAdded", added.r),
          Frame("orderUpdated", filled1.r), Frame("orderUpdated", filled2.r),
          Frame("orderDeleted", [id |-> 1]),
          Frame("logAdded", logged.r),
          Frame("settingUpdated", [type |-> "global", data |-> setting])>>
ForeignFrames ==
    <<Unparsable, stringify(Null), stringify([type |-> "heartbeat", data |-> Null])>>
FrameInputs ==
    [i \in 1..Len(SnapshotFrames) |-> stringify(SnapshotFrames[i])]
    \o [i \in 1..Len(EventFrames) |-> stringify(EventFrames[i])]
    \o ForeignFrames

\* the page with its one connection, fed frames while its socket is open
InitViewer == InitStore

NextViewer ==
    \/ ConnectToSignalR(1) \/ SocketOpen(1) \/ SocketClose(1) \/ DisconnectFromSignalR(1)
    \/ \E timer \in timers : ReconnectTimer(timer)
    \/ \E i \in 1..Len(FrameInputs) :
          Receive(1, FrameInputs[i], MaxFrames) /\ UNCHANGED page

SpecViewer == InitViewer /\ [][NextViewer]_vars

\* the numeric fields as they may arrive: texts with and without thousands
\* separators, a text that is no number, the empty text, a number, and a
\* missing field
RawValues ==
    {Str(<<"1", ",", "2", "3", "4", ".", "5", "0">>), Str(<<"a", "b", "c">>),
     Str(<<>>), Str(<<"-", "7">>), Numeric(Float(5, 0)), Missing}
RawOrders ==
    [id : {1}, price : RawValues, quantityOrdered : RawValues, quantityLeft : RawValues]
\* the id of a position is optional
RawPositions ==
    [id : {<<>>, <<7>>}, price : RawValues, quantity : RawValues, pnl : RawValues]
UUIDs == {"uuid-1"}

\* loadInitialData: the GET /api/orders response, an array, is stored through
\* parseOrderFields
LoadOrders(max) ==
    \E orderInput \in RawOrders :
        /\ received.n < max
        /\ received' = [n |-> received.n + 1,
                        text |-> stringify([type |-> "orders", data |-> orderInput]),
                        before |-> received.text]
        /\ ordersStringId' = <<parseOrderFields(orderInput)>>
        /\ UNCHANGED <<conn, reconnectTimeout, timers, disconnected, mirror, positionsStringId,
                       page, submitted, wire, storeVars, serverVars>>

\* onPositionsUpdated with a single position: parsed, then replaced by id or
\* appended
PositionsUpdated(max) ==
    \E p \in RawPositions, uuid \in UUIDs :
        LET newPosition == parsePosition(p, uuid)
            index == {i \in 1..Len(positionsStringId) :
                         StrictEquals(positionsStringId[i].id, newPosition.id)}
        IN
        /\ received.n < max
        /\ received' = [n |-> received.n + 1,
                        text |-> stringify([type |-> "positionsUpdated", data |-> p]),
                        before |-> received.text]
        /\ positionsStringId' =
              IF index # {}
              THEN [positionsStringId EXCEPT
                       ![CHOOSE i \in index : \A j \in index : i <= j] = newPosition]
              ELSE Append(positionsStringId, newPosition)
        /\ UNCHANGED <<conn, reconnectTimeout, timers, disconnected, mirror, ordersStringId,
                       page, submitted, wire, storeVars, serverVars>>

\* the later revision of the context on its own: one response or event is parsed
InitParse == InitStore
NextParse == LoadOrders(MaxParses) \/ PositionsUpdated(MaxParses)
SpecParse == InitParse /\ [][NextParse]_vars

\* the page from its mount on, against a server that takes orders: the
\* fetches of loadInitialData and the frames of the page's channel
InitOrdersPage == InitStore
NextOrdersPage ==
    \/ ConnectToSignalR(1)
    \/ (conn[1].socket = "connecting" /\ Connect(1))
    \/ (clients[1] = "open" /\ SocketOpen(1))
    \/ PostOrders
    \/ FetchServed \/ FetchArrives
    \/ DeliverOn(1, 1)
SpecOrdersPage == InitOrdersPage /\ [][NextOrdersPage]_vars

RECURSIVE LoadedAll(_, _, _)
\* the state after the fetches from the k-th on, answered by a store that does
\* not change meanwhile
LoadedAll(m, s, k) ==
    IF k >= LoadComplete THEN m
    ELSE LoadedAll(Loaded(m, Fetches[k], ServeFetch(s, Fetches[k])), s, k + 1)
RECURSIVE ReceivedAll(_, _)
\* the state after the frames have been handed to onmessage
ReceivedAll(m, frames) ==
    IF frames = <<>> THEN m
    ELSE ReceivedAll(onmessage(m, stringify(Head(frames))), Tail(frames))

\* the page in front of a fresh server, once loadInitialData has run and the
\* snapshot of its channel has been delivered
InitSettingsPage ==
    LET snapshot == sendInitialData(Constructor) IN
    /\ store = Constructor
    /\ appended = AppendedOf(Constructor)
    /\ issued = NoIssued
    /\ ret = NoRet
    /\ clients = [ch \in Channels |-> IF ch = 1 THEN "open" ELSE "absent"]
    /\ sent = [ch \in Channels |-> IF ch = 1 THEN snapshot ELSE <<>>]
    /\ inflight = <<>>
    /\ files = NoFiles
    /\ writeFailed = {}
    /\ resp = NoResponse
    /\ bcast = <<>>
    /\ requests = 0
    /\ conn = [c \in Connections |->
                 IF c = 1 THEN [socket |-> "open", handlers |-> "initial",
                                isConnected |-> TRUE, reconnectAttempts |-> 0]
                 ELSE NoConnection]
    /\ reconnectTimeout = 0
    /\ timers = {}
    /\ disconnected = {}
    /\ mirror = ReceivedAll(LoadedAll(InitialMirror, Constructor, 1), snapshot)
    /\ ordersStringId = <<>>
    /\ positionsStringId = <<>>
    /\ received = [n |-> Len(snapshot), text |-> stringify(Last(snapshot)),
                   before |-> stringify(snapshot[Len(snapshot) - 1])]
    /\ page = [at |-> LoadComplete, response |-> <<>>,
               delivered |-> [ch \in Channels |-> IF ch = 1 THEN Len(snapshot) ELSE 0]]
    /\ submitted = <<>>
    /\ wire = <<>>

\* the channel is lost and the connection reconnects while settings are saved
NextSettingsPage ==
    \/ \E ch \in Channels : CloseStart(ch) \/ CloseEnd(ch)
    \/ (clients[CurrentChannel] # "open" /\ SocketClose(1))
    \/ \E timer \in timers : ReconnectTimer(timer)
    \/ (conn[1].socket = "connecting" /\ Connect(2))
    \/ (clients[CurrentChannel] = "open" /\ SocketOpen(1))
    \/ PostSettings
    \/ \E i \in 1..Len(inflight) : Resume(i)
    \/ \E ch \in Channels : DeliverOn(1, ch)
SpecSettingsPage == InitSettingsPage /\ [][NextSettingsPage]_vars

\* a server that saves accounts, settings and the program state and is
\* restarted
InitRestart == InitStore
NextRestart ==
    \/ PostAccounts \/ DeleteAccounts \/ PostSettings \/ PostToggle
    \/ \E i \in 1..Len(inflight) : Resume(i)
    \/ Restart
SpecRestart == InitRestart /\ [][NextRestart]_vars

\* the page with its one connection, sending toggle requests
InitSender == InitStore

NextSender ==
    \/ ConnectToSignalR(1) \/ SocketOpen(1) \/ SocketClose(1) \/ DisconnectFromSignalR(1)
    \/ \E timer \in timers : ReconnectTimer(timer)
    \/ SendSignalRMessage(1, MaxSends)

SpecSender == InitSender /\ [][NextSender]_vars

\* the next frame the server sent on the channel arrives at the connection
Deliver(c, ch) ==
    /\ received.n < Len(sent[ch])
    /\ Receive(c, stringify(sent[ch][received.n + 1]), Len(sent[ch]))
    /\ UNCHANGED page

\* a server whose log holds one entry or is one entry below its cap, the
\* page's connection on channel 1, and the log timer
InitLogMirror == InitHistory

NextLogMirror ==
    \/ ConnectToSignalR(1)
    \/ (conn[1].socket = "connecting" /\ Connect(1))
    \/ (clients[1] = "open" /\ SocketOpen(1))
    \/ SimulatedLog
    \/ Deliver(1, 1)

SpecLogMirror == InitLogMirror /\ [][NextLogMirror]_vars

-----------------------------------------------------------------------------
(* Properties *)

\* the last k entries of a sequence, in order
LastN(s, k) == SubSeq(s, Len(s) - k + 1, Len(s))

QuotesOf(s, sym) ==
    IF MapHas(s.quoteDataMap, sym) THEN MapGet(s.quoteDataMap, sym) ELSE <<>>

\* h holds at most HistoryCap entries: the most recent of all those appended, in order
Retains(h, all) ==
    /\ Len(h) <= HistoryCap
    /\ h = LastN(all, Min(HistoryCap, Len(all)))

\* C1: each history (logs, band data, each symbol's quotes) holds at most 1000
\* entries, and they are exactly the most recently appended ones in insertion
\* order, whatever appends happened (side-effect log entries included).
C1_BoundedHistory ==
    /\ Retains(store.logs, appended.logs)
    /\ Retains(store.bandDataHistory, appended.band)
    /\ \A sym \in Symbols : Retains(QuotesOf(store, sym), appended.quotes[sym])

\* C1 witness: a side-effect log entry (of a toggle) evicted the oldest log entry
C1_Witness ==
    /\ ret.op = "toggleProgramState"
    /\ Len(appended.logs) > HistoryCap
    /\ Len(store.logs) = HistoryCap

StrictlyIncreasing(ids) == \A i, j \in 1..Len(ids) : i < j => ids[i] < ids[j]

\* ids the constructor's own create calls were given
SeedIds ==
    [c \in Collections |->
        CASE c = "accounts" -> Ids(getAccounts(Constructor))
          [] c = "band"     -> Ids(Constructor.bandDataHistory)
          [] c = "quotes"   -> Ids(QuotesOf(Constructor, DefaultSymbol))
          [] OTHER          -> <<>>]

\* C5: per collection, the ids returned by create calls are strictly increasing
\* in call order, whatever happens in between (so a deleted id is never reused).
C5_IdentityMonotonic ==
    \A c \in Collections : StrictlyIncreasing(SeedIds[c] \o issued[c])

\* C5 witness: an account is created after an earlier-created account was deleted
C5_Witness ==
    /\ ret.op = "createAccount"
    /\ \E i \in 1..Len(SeedIds["accounts"]) :
          ~MapHas(store.accounts, SeedIds["accounts"][i])

IsPositive(x) == ~x.nan /\ x.n > 0

\* C10: a history read with a positive limit L over n entries returns the
\* min(L, n) most recently appended entries, oldest first; an absent limit is 100.
C10_HistoryRead ==
    /\ ret.op \in {"getBandDataHistory", "getQuoteHistory"} /\ ret.arg.query = <<>>
          => ret.arg.limit = Num(DefaultLimit)
    /\ ret.op = "getBandDataHistory" /\ IsPositive(ret.arg.limit)
          => ret.value = LastN(appended.band,
                               Min(ret.arg.limit.n, Len(store.bandDataHistory)))
    /\ ret.op = "getQuoteHistory" /\ IsPositive(ret.arg.limit)
          => ret.value = LastN(appended.quotes[ret.arg.symbol],
                               Min(ret.arg.limit.n,
                                   Len(QuotesOf(store, ret.arg.symbol))))

\* C10 witness: a read without a limit of a band history longer than the default
\* limit, after the oldest entry was evicted
C10_Witness ==
    /\ ret.op = "getBandDataHistory"
    /\ ret.arg.query = <<>>
    /\ Len(appended.band) > HistoryCap
    /\ Len(ret.value) = DefaultLimit

-----------------------------------------------------------------------------
(* Properties of the routes and the WebSocket server.  resp and bcast are  *)
(* what the last step answered and broadcast, so a state predicate on them *)
(* speaks of one handler run and resp' names the step that answered.       *)

Succeeded(op) == resp.op = op /\ resp.status \in 200..299

MutatingOps ==
    {"postOrder", "putOrder", "deleteOrder", "postLog", "postSetting", "postToggle"}
EventOf ==
    [postOrder |-> "orderAdded", putOrder |-> "orderUpdated", postLog |-> "logAdded",
     postToggle |-> "programStateUpdated"]

\* C2 as stated: for every successful mutating call (order create, update and
\* delete, log create, setting upsert, toggle) the response body equals the data
\* field of the event broadcast for the call.
C2_Original ==
    \A op \in MutatingOps :
        Succeeded(op) => Len(bcast) = 1 /\ bcast[1].data = resp.body

\* C2: a successful order create, order update, log create or toggle answers
\* with the value its one broadcast event carries as data; a setting upsert
\* answers with the setting's data while its event carries {type, data}; an
\* order delete answers 204 without a body while its event carries {id}.
C2_ResponseMatchesBroadcast ==
    /\ \A op \in DOMAIN EventOf :
          Succeeded(op) => /\ Len(bcast) = 1
                           /\ bcast[1].type = EventOf[op]
                           /\ bcast[1].data = resp.body
    /\ Succeeded("postSetting") =>
          bcast = <<[type |-> "settingUpdated",
                     data |-> [type |-> resp.req.type, data |-> resp.body]]>>
    /\ Succeeded("deleteOrder") =>
          /\ resp.status = 204 /\ resp.body = NoBody
          /\ bcast = <<[type |-> "orderDeleted", data |-> [id |-> resp.req.id]]>>

\* C2 witness: an order update was answered and broadcast to an open channel
C2_Witness ==
    /\ Succeeded("putOrder")
    /\ \E ch \in Channels : clients[ch] = "open" /\ Last(sent[ch]) = bcast[1]

SnapshotOrder ==
    <<"bandDataUpdated", "positionsUpdated", "ordersUpdated", "serviceStatusUpdated",
      "logsUpdated", "programStateUpdated", "quoteUpdated">>
SnapshotOnly ==
    {"positionsUpdated", "ordersUpdated", "serviceStatusUpdated", "logsUpdated"}
Omitted(s, type) ==
    \/ type = "bandDataUpdated" /\ s.bandDataHistory = <<>>
    \/ type = "quoteUpdated" /\ QuotesOf(s, "ES2023") = <<>>
SnapshotData(s, type) ==
    CASE type = "bandDataUpdated"      -> Last(s.bandDataHistory)
      [] type = "positionsUpdated"     -> MapValues(s.positions)
      [] type = "ordersUpdated"        -> MapValues(s.orders)
      [] type = "serviceStatusUpdated" -> MapValues(s.serviceStatusMap)
      [] type = "logsUpdated"          -> s.logs
      [] type = "programStateUpdated"  -> s.programStateValue
      [] type = "quoteUpdated"         -> Last(QuotesOf(s, "ES2023"))
Types(frames) == [i \in 1..Len(frames) |-> frames[i].type]
IsPrefix(p, q) == Len(p) <= Len(q) /\ SubSeq(q, 1, Len(p)) = p

\* C3: the step that accepts a connection sends it the snapshot: one event per
\* type in the fixed order, each with the store's current value, the band and
\* quote events left out exactly when the store has none; afterwards the
\* channel's frames only grow and no snapshot-only event is sent again.
C3_Bootstrap ==
    [][\A ch \in Channels :
          /\ (clients[ch] = "absent" /\ clients'[ch] # "absent") =>
                LET sentTypes == SelectSeq(SnapshotOrder, LAMBDA type : ~Omitted(store, type))
                IN  /\ Types(sent'[ch]) = sentTypes
                    /\ \A i \in 1..Len(sentTypes) :
                          sent'[ch][i].data = SnapshotData(store, sentTypes[i])
          /\ clients[ch] # "absent" =>
                /\ IsPrefix(sent[ch], sent'[ch])
                /\ \A i \in (Len(sent[ch]) + 1)..Len(sent'[ch]) :
                      sent'[ch][i].type \notin SnapshotOnly
          /\ clients[ch] = "absent" => sent[ch] = <<>>]_vars

\* C3 witness: a channel connected after an order was created holds the seven
\* snapshot events, the order in the third
C3_Witness ==
    \E ch \in Channels :
        /\ clients[ch] = "open"
        /\ Types(sent[ch]) = SnapshotOrder
        /\ sent[ch][3].data # <<>>

Invalid(r) ==
    \/ r.req.defect # "none"
    \/ r.op = "postSetting" /\ r.req.type \notin {"global", "daily"}

\* C6: a request with a required field missing or a field of the wrong type, or
\* a setting POST for a type other than global and daily, is answered with a
\* client error, and its step changes nothing: the store with its id counters
\* and logs, the channels' frames, the files and the suspended handlers stay as
\* they were and nothing is broadcast.
C6_RejectedInputHasNoEffect ==
    [][Invalid(resp') =>
          /\ resp'.status \in 400..499
          /\ store' = store
          /\ appended' = appended /\ issued' = issued
          /\ sent' = sent /\ bcast' = <<>>
          /\ inflight' = inflight /\ files' = files]_vars

\* C6 witness: an update with a wrong-typed field of an order that exists was
\* rejected
C6_Witness ==
    /\ resp.op = "putOrder" /\ resp.req.defect = "wrongType" /\ resp.status = 400
    /\ MapHas(store.orders, resp.req.id)

\* C7: a DELETE of an order id that is not in the store is answered 404, and its
\* step broadcasts nothing, sends nothing and leaves the store (orders and logs
\* included) as it was.
C7_DeleteUnknownOrder ==
    [][(resp'.op = "deleteOrder" /\ ~MapHas(store.orders, resp'.req.id)) =>
          /\ resp'.status = 404
          /\ bcast' = <<>> /\ sent' = sent
          /\ store' = store /\ appended' = appended]_vars

\* C7 witness: a delete of an unknown id was answered while the store holds an
\* order and a channel is open
C7_Witness ==
    /\ resp.op = "deleteOrder" /\ resp.status = 404
    /\ store.orders # <<>>
    /\ \E ch \in Channels : clients[ch] = "open"

Contains(message, text) ==
    \E i \in 1..(Len(message) - Len(text) + 1) :
        SubSeq(message, i, i + Len(text) - 1) = text

\* C8: the step of a successful POST /api/orders appends one orderAdded event
\* carrying the created order to every channel that is open, nothing to the
\* others, and one Info entry to the logs whose message contains
\* "<side> <quantity> <symbol> @ <price>"; GET /api/logs answers with the
\* store's logs, that entry included.
C8_OrderCreated ==
    [][/\ (resp'.op = "postOrder" /\ resp'.status = 201) =>
             LET order == resp'.body
                 entry == Last(store'.logs)
             IN  /\ \A ch \in Channels :
                       sent'[ch] = IF clients[ch] = "open"
                                   THEN Append(sent[ch], [type |-> "orderAdded",
                                                          data |-> order])
                                   ELSE sent[ch]
                 /\ order = MapGet(store'.orders, order.id)
                 /\ store'.logs = Append(store.logs, entry)
                 /\ entry.level = "Info"
                 /\ Contains(entry.message,
                             <<order.side, " ", ToString(order.quantity), " ",
                               order.symbol, " @ ", order.price>>)
       /\ resp'.op = "getLogs" => resp'.status = 200 /\ resp'.body = store.logs]_vars

\* C8 witness: an order was created while both channels were open
C8_Witness ==
    /\ resp.op = "postOrder" /\ resp.status = 201
    /\ \A ch \in Channels : clients[ch] = "open" /\ Last(sent[ch]).data = resp.body

HasId(rows, id) == \E i \in 1..Len(rows) : rows[i].id = id
Answered(op) == \A i \in 1..Len(inflight) : inflight[i].op # op

\* C9 as stated: a successful POST /api/accounts answers with the account under
\* a generated id and pushes no event, and every later GET /api/accounts lists
\* every account so created.
C9_Original ==
    /\ Succeeded("postAccount") => resp.body.id \in Nat /\ bcast = <<>>
    /\ (resp.op \in {"getAccounts", "getAccountsFromFile"} /\ Answered("postAccount")) =>
          \A i \in 1..Len(issued["accounts"]) :
              resp.status = 200 /\ HasId(resp.body, issued["accounts"][i])

\* C9 witness: a POST /api/accounts was answered 201 while a channel was open
C9_Witness ==
    /\ Succeeded("postAccount")
    /\ \E ch \in Channels : clients[ch] = "open"

-----------------------------------------------------------------------------
(* Properties of the client *)

TimersOf(ts, c) == {timer \in ts : timer.conn = c}
Abandoned(c) ==
    /\ conn[c].socket = "closed"
    /\ conn[c].reconnectAttempts >= 10
    /\ TimersOf(timers, c) = {}

\* C4: the step in which a connection's socket closes leaves exactly one
\* pending reconnect for it, with delay min(30000, 2^attempts * 1000) ms, when
\* fewer than 10 attempts were made since the last open, and none otherwise;
\* an open resets the attempts to 0 and each reconnect that runs adds one; a
\* connection that is closed after 10 attempts with nothing pending never
\* changes again.
C4_Reconnect ==
    [][\A c \in Connections :
          LET attempts == conn[c].reconnectAttempts IN
          /\ (conn[c].socket # "closed" /\ conn'[c].socket = "closed") =>
                /\ TimersOf(timers, c) = {}
                /\ conn'[c].reconnectAttempts = attempts
                /\ IF attempts < 10
                   THEN \E timer \in timers' :
                           /\ TimersOf(timers', c) = {timer}
                           /\ timer.delay = IF 2 ^ attempts < 30 THEN (2 ^ attempts) * 1000
                                            ELSE 30000
                   ELSE TimersOf(timers', c) = {}
          /\ (conn[c].socket # "open" /\ conn'[c].socket = "open") =>
                conn'[c].reconnectAttempts = 0
          /\ (conn[c].socket = "closed" /\ conn'[c].socket = "connecting") =>
                /\ TimersOf(timers, c) # {} /\ TimersOf(timers', c) = {}
                /\ conn'[c].reconnectAttempts = attempts + 1
          /\ TimersOf(timers', c) \subseteq TimersOf(timers, c) \/ conn'[c].socket # conn[c].socket
          /\ Abandoned(c) => conn'[c] = conn[c] /\ TimersOf(timers', c) = {}]_vars

\* C4 witness: a connection was abandoned after its tenth reconnect failed
C4_Witness ==
    \E c \in Connections : Abandoned(c) /\ conn[c].reconnectAttempts = 10

-----------------------------------------------------------------------------
(* C11: toggling the program state *)

\* the log entry a toggle to the given state writes
ProgramLog(running) ==
    [level |-> "Info",
     message |-> <<"Program ", IF running THEN "started" ELSE "stopped">>]

\* the step is a call of toggleProgramState
Toggled ==
    /\ ret'.op = "toggleProgramState"
    /\ ret.op = "toggleProgramState" => ret' # ret

\* the entries the step appended to the logs
NewLogs == SubSeq(appended'.logs, Len(appended.logs) + 1, Len(appended'.logs))

\* C11: a call of toggleProgramState inverts running and keeps the id of the
\* singleton, so that a second call returns running to its original value;
\* each call appends exactly one log entry, 'Program started' when the new
\* value is true and 'Program stopped' when it is false
C11_ToggleInvolution ==
    [][Toggled =>
        LET before == store.programStateValue
            after  == store'.programStateValue
            again  == toggleProgramState(store')
        IN  /\ after.running = ~before.running
            /\ after.id = before.id
            /\ ret'.value = after
            /\ Len(NewLogs) = 1
            /\ NewLogs[1] = Spread(ProgramLog(after.running), [id |-> store.logId])
            /\ Last(store'.logs) = NewLogs[1]
            /\ again.r.running = before.running
            /\ again.r.id = before.id
            /\ again.logged = <<Spread(ProgramLog(before.running), [id |-> store'.logId])>>]_vars

\* C11 witness: the state was toggled twice and is back where it started, with
\* a 'Program started' and a 'Program stopped' entry written one after the other
C11_Witness ==
    /\ ret.op = "toggleProgramState"
    /\ ret.value.running = Constructor.programStateValue.running
    /\ \E i \in 1..(Len(appended.logs) - 1) :
          /\ appended.logs[i].message = <<"Program ", "started">>
          /\ appended.logs[i + 1].message = <<"Program ", "stopped">>

-----------------------------------------------------------------------------
(* C12: the settings upsert *)

\* the rows of the settings map whose type is the given one
RowsOfType(s, type) == {i \in 1..Len(s.settingsMap) : s.settingsMap[i].v.type = type}

\* the step is a call of createOrUpdateSetting that changed the store or
\* followed another call
Upserted ==
    /\ ret'.op = "createOrUpdateSetting"
    /\ ret.op = "createOrUpdateSetting" => ret' # ret

-----------------------------------------------------------------------------
(* C13: delivery of broadcast events *)

\* the step accepts the connection of the channel
Connecting(ch) == clients[ch] = "absent" /\ clients'[ch] = "open"

\* the event types that only a broadcast carries, never the snapshot
EventOnly ==
    {"orderAdded", "orderUpdated", "orderDeleted", "logAdded", "settingUpdated"}

\* C13: the events a step broadcasts are sent once each, in order, on every
\* channel that is open at that step and on no other channel; a channel that
\* was not open when an event was emitted never receives it later: the step
\* that connects a channel broadcasts nothing and sends the snapshot of the
\* current store only, which holds no event-only frame
C13_Delivery ==
    [][\A ch \in Channels :
          IF Connecting(ch)
          THEN /\ bcast' = <<>>
               /\ sent'[ch] = sendInitialData(store)
               /\ \A i \in 1..Len(sent'[ch]) : sent'[ch][i].type \notin EventOnly
          ELSE sent'[ch] = sent[ch] \o (IF clients[ch] = "open" THEN bcast' ELSE <<>>)]_vars

\* C13 witness: a log was broadcast while channel 1 was open and channel 2 not
\* yet connected; channel 1 holds the logAdded event once, channel 2, connected
\* afterwards, holds the entry in its snapshot and no logAdded event
C13_Witness ==
    /\ clients[1] = "open" /\ clients[2] = "open"
    /\ Len(SelectSeq(sent[1], LAMBDA f : f.type = "logAdded")) = 1
    /\ Last(sent[1]).type = "logAdded"
    /\ SelectSeq(sent[2], LAMBDA f : f.type \in EventOnly) = <<>>
    /\ \E i \in 1..Len(sent[2]) :
          /\ sent[2][i].type = "logsUpdated"
          /\ Last(sent[2][i].data) = Last(sent[1]).data

-----------------------------------------------------------------------------
(* C14: the two ways to toggle *)

ToggleOps == {"wsToggle", "postToggle"}

\* the sequence without its i-th element
RemoveAt(q, i) == [j \in 1..(Len(q) - 1) |-> IF j < i THEN q[j] ELSE q[j + 1]]

\* what a toggle handler does up to its await of saveToFile, seen from the
\* handler h it leaves suspended
ToggleStarted(h) ==
    LET before == store.programStateValue
        after  == store'.programStateValue
    IN  /\ after = Spread(before, [running |-> ~before.running])
        /\ store' = [store EXCEPT !.programStateValue = after,
                                  !.logs = store'.logs, !.logId = store.logId + 1]
        /\ appended' = [appended EXCEPT
                           !.logs = Append(@, Spread(ProgramLog(after.running),
                                                     [id |-> store.logId]))]
        /\ Last(store'.logs) = Last(appended'.logs)
        /\ h.file = "programState"
        /\ h.content = [running |-> after.running]
        /\ h.events = <<[type |-> "programStateUpdated", data |-> after]>>
        /\ sent' = sent /\ files' = files /\ bcast' = <<>>

\* what a toggle handler h does once saveToFile has settled
ToggleFinished(h) ==
    /\ files' \in {files, [files EXCEPT !.programState = <<h.content>>]}
    /\ bcast' = h.events
    /\ \A ch \in Channels :
          sent'[ch] = IF clients[ch] = "open" THEN sent[ch] \o h.events ELSE sent[ch]
    /\ store' = store /\ appended' = appended

\* C14: a toggleProgramState message on an open channel has the effect of
\* POST /api/program-state/toggle: either handler flips the flag once, appends
\* the one 'Program started' / 'Program stopped' log entry and calls
\* saveToFile with the programState snapshot {running}; when the write has
\* settled it broadcasts one programStateUpdated event with the new state to
\* every open channel.  The two differ only in the HTTP response of the POST.
C14_ToggleByMessage ==
    [][/\ (Len(inflight') = Len(inflight) + 1 /\ Last(inflight').op \in ToggleOps) =>
             /\ ToggleStarted(Last(inflight'))
             /\ Last(inflight').op = "wsToggle" =>
                   /\ Last(inflight').answer = <<>>
                   /\ \E ch \in Channels : clients[ch] = "open"
       /\ \A i \in 1..Len(inflight) :
             (inflight' = RemoveAt(inflight, i) /\ inflight[i].op \in ToggleOps) =>
                 /\ ToggleFinished(inflight[i])
                 /\ resp' = IF inflight[i].op = "postToggle"
                            THEN inflight[i].answer[1] ELSE NoResponse]_vars

\* C14 witness: the handler of a toggleProgramState message has written
\* {running: false} and broadcast the stopped state to the channel, after an
\* earlier toggle had started the program
C14_Witness ==
    /\ resp = NoResponse
    /\ Len(bcast) = 1 /\ bcast[1].type = "programStateUpdated"
    /\ ~bcast[1].data.running
    /\ files.programState = <<[running |-> FALSE]>>
    /\ \E ch \in Channels : clients[ch] = "open" /\ Last(sent[ch]) = bcast[1]

-----------------------------------------------------------------------------
(* C15: outgoing messages *)

SubmittedBy(c) == SelectSeq(submitted, LAMBDA call : call.conn = c)
TransmittedBy(c) == SelectSeq(wire, LAMBDA message : message.conn = c)

\* C15 as stated: a toggleProgramState message submitted while the channel is
\* not open is queued and sent when the channel next reaches Open, so that
\* whenever the channel is open every message submitted so far has been
\* transmitted
C15_Original ==
    \A c \in Connections :
        (conn[c].socket = "open" /\ conn[c].isConnected) =>
            Len(TransmittedBy(c)) = Len(SubmittedBy(c))

\* C15 witness: a message was submitted while the socket was connecting or
\* closed, the socket is open now, and nothing was transmitted
C15_Witness ==
    /\ conn[1].socket = "open" /\ conn[1].isConnected
    /\ \E i \in 1..Len(submitted) :
          submitted[i].conn = 1 /\ submitted[i].socket \in {"connecting", "closed"}
    /\ wire = <<>>

-----------------------------------------------------------------------------
(* C16: log entries reach the viewers *)

\* the log entries a channel was sent, in its snapshot or as logAdded events
LogsSentTo(ch) ==
    UNION {{sent[ch][i].data[k] : k \in 1..Len(sent[ch][i].data)} :
              i \in {j \in 1..Len(sent[ch]) : sent[ch][j].type = "logsUpdated"}}
    \cup {sent[ch][i].data : i \in {j \in 1..Len(sent[ch]) : sent[ch][j].type = "logAdded"}}

\* C16 as stated: every log entry appended to the store while a channel is
\* open, by POST /api/logs, by the generator or as a side effect of an order
\* create, update or delete or of a toggle, is pushed to the channel as a
\* logAdded event: once no handler is suspended, an open channel has been sent
\* every log entry of the store, in its snapshot or as an event
C16_Original ==
    \A ch \in Channels :
        (clients[ch] = "open" /\ inflight = <<>>) =>
            \A i \in 1..Len(appended.logs) : appended.logs[i] \in LogsSentTo(ch)

\* C16 witness: an order was created while the channel was open; the channel
\* was sent the orderAdded event, and the log entry of the creation is in the
\* store and was not sent
C16_Witness ==
    \E ch \in Channels :
        /\ clients[ch] = "open" /\ inflight = <<>>
        /\ Last(sent[ch]).type = "orderAdded"
        /\ Last(store.logs).message = <<"New order created: ">> \o OrderText(Last(sent[ch]).data)
        /\ Last(store.logs) \notin LogsSentTo(ch)

-----------------------------------------------------------------------------
(* C17: the log mirror *)

\* the frames the connection has received from the channel so far
FramesReceived(ch) == SubSeq(sent[ch], 1, received.n)

\* the log entries the viewer has received, in a snapshot or as events
LogsReceived(ch) ==
    LET frames == FramesReceived(ch) IN
    UNION {{frames[i].data[k] : k \in 1..Len(frames[i].data)} :
              i \in {j \in 1..Len(frames) : frames[j].type = "logsUpdated"}}
    \cup {frames[i].data : i \in {j \in 1..Len(frames) : frames[j].type = "logAdded"}}

MirrorLogs == {mirror.logs[i] : i \in 1..Len(mirror.logs)}

\* C17 as stated: after a logsUpdated snapshot followed by logAdded events the
\* log mirror holds at most 1000 entries, all of them received, and they are
\* the most recently created of the entries received: an entry that was
\* dropped is older than every entry that was kept
C17_Original ==
    /\ Len(mirror.logs) <= MirrorCap
    /\ MirrorLogs \subseteq LogsReceived(1)
    /\ \A dropped \in LogsReceived(1) \ MirrorLogs :
          \A kept \in MirrorLogs : dropped.id < kept.id

\* C17 witness: after a snapshot of 999 entries and two logAdded events the
\* mirror holds 1000 entries, the oldest of the snapshot among them, and the
\* newest entry of the snapshot was dropped
C17_Witness ==
    /\ Len(mirror.logs) = MirrorCap
    /\ Cardinality(LogsReceived(1)) = MirrorCap + 1
    /\ \E kept \in MirrorLogs : kept.id = 1
    /\ \E dropped \in LogsReceived(1) \ MirrorLogs : dropped.id = HistoryCap - 1

-----------------------------------------------------------------------------
(* C18, C19: order events applied to the orders mirror *)

\* the text parses to a message of the given type
IsEvent(text, type) ==
    LET parsed == JSONparse(text) IN
    /\ parsed.ok
    /\ parsed.value # Null
    /\ "type" \in DOMAIN parsed.value
    /\ parsed.value.type = type

\* the step hands a frame of the given type to onmessage
Applies(type) == received'.n = received.n + 1 /\ IsEvent(received'.text, type)

DataOfFrame(text) == JSONparse(text).value.data

\* the positions of the orders with the given id
WithId(os, id) == {i \in 1..Len(os) : os[i].id = id}

\* C18 as stated: an orderUpdated event is applied as an upsert by id: after
\* the event the mirror holds exactly one order with the id of the event, equal
\* to the event's data, whether or not the mirror held an order with that id;
\* for the later revision, whose orders carry string ids, the one order has
\* the id of the event as a string
C18_Original ==
    [][Applies("orderUpdated") =>
          LET data == DataOfFrame(received'.text) IN
          /\ Cardinality(WithId(mirror'.orders, data.id)) = 1
          /\ \A i \in WithId(mirror'.orders, data.id) : mirror'.orders[i] = data
          /\ Cardinality(WithId(ordersStringId', String(data.id))) = 1]_vars

\* C18 witness: an orderUpdated event for an order the mirror did not hold
\* was applied, and the mirror still does not hold it
C18_Witness ==
    /\ IsEvent(received.text, "orderUpdated")
    /\ mirror.orders # <<>>
    /\ WithId(mirror.orders, DataOfFrame(received.text).id) = {}
    /\ WithId(ordersStringId, String(DataOfFrame(received.text).id)) = {}

\* C19 as stated: after the orderDeleted event of the server, whose data holds
\* the numeric id, the mirror holds no order with that id and its other orders
\* are as they were; the same for the orders of the later revision
C19_Original ==
    [][Applies("orderDeleted") =>
          LET id == DataOfFrame(received'.text).id IN
          /\ mirror'.orders = SelectSeq(mirror.orders, LAMBDA order : order.id # id)
          /\ WithId(mirror'.orders, id) = {}
          /\ ordersStringId' = SelectSeq(ordersStringId,
                                         LAMBDA order : order.id # String(id))
          /\ WithId(ordersStringId', String(id)) = {}]_vars

\* C19 witness: the orderDeleted event for order 1 was applied; the mirror of
\* TradingContext.tsx no longer holds the order, the later revision's does
C19_Witness ==
    /\ IsEvent(received.text, "orderDeleted")
    /\ WithId(mirror.orders, DataOfFrame(received.text).id) = {}
    /\ WithId(ordersStringId, String(DataOfFrame(received.text).id)) # {}

-----------------------------------------------------------------------------
(* C20: frames the client does not understand *)

\* the text does not parse, or parses to something without one of the twelve
\* known types
Foreign(text) == \A type \in KnownTypes : ~IsEvent(text, type)

\* C20: a frame that cannot be parsed, or whose type is not one of the twelve
\* known ones, changes no mirror and nothing of the connection (socket,
\* isConnected, reconnectAttempts, the timer handle and the pending timers),
\* so the channel stays open; a known frame that follows it is routed to its
\* callback as usual
C20_ForeignFrameIgnored ==
    [][/\ (received'.n = received.n + 1 /\ Foreign(received'.text)) =>
             /\ mirror' = mirror
             /\ ordersStringId' = ordersStringId
             /\ conn' = conn
             /\ reconnectTimeout' = reconnectTimeout
             /\ timers' = timers
             /\ \E c \in Connections : conn'[c].socket = "open" /\ conn'[c].isConnected
       /\ (received'.n = received.n + 1 /\ received.n > 0
           /\ Foreign(received.text) /\ ~Foreign(received'.text)) =>
             mirror' = Route(mirror, JSONparse(received'.text).value)]_vars

\* C20 witness: on a socket opened by a reconnect an unparsable frame arrived
\* and after it the orders snapshot, which is in the mirror
C20_Witness ==
    /\ received.n = 2
    /\ received.before = Unparsable
    /\ IsEvent(received.text, "ordersUpdated")
    /\ mirror.orders = DataOfFrame(received.text)
    /\ mirror.orders # <<>>
    /\ conn[1].socket = "open" /\ conn[1].handlers = "reconnect"

-----------------------------------------------------------------------------
(* C21: a failed snapshot write *)

\* the step resumes the i-th suspended handler
Resumes(i) == i \in 1..Len(inflight) /\ inflight' = RemoveAt(inflight, i)

\* C21: whether the snapshot write of a suspended handler succeeds or fails,
\* the handler ends the same way: the store keeps the mutation, the event is
\* broadcast to the open channels and the caller gets the success response;
\* a failed write only leaves the file as it was
C21_WriteFailureSwallowed ==
    [][\A i \in 1..Len(inflight) :
          Resumes(i) =>
              LET h == inflight[i] IN
              /\ store' = store
              /\ bcast' = h.events
              /\ \A ch \in Channels :
                    sent'[ch] = IF clients[ch] = "open"
                                THEN sent[ch] \o h.events ELSE sent[ch]
              /\ resp' = IF h.answer = <<>> THEN NoResponse ELSE h.answer[1]
              /\ h.answer # <<>> => h.answer[1].status \in 200..299
              /\ files' \in {files, [files EXCEPT ![h.file] = <<h.content>>]}]_vars

\* C21 witness: the toggle was answered 200 with the running state and
\* broadcast to an open channel, the store is running, and programState.json
\* was never written
C21_Witness ==
    /\ resp.op = "postToggle" /\ resp.status = 200 /\ resp.body.running
    /\ store.programStateValue.running
    /\ files.programState = <<>>
    /\ \E ch \in Channels : clients[ch] = "open" /\ Last(sent[ch]) = bcast[1]

-----------------------------------------------------------------------------
(* C22: the numeric fields of stored orders and positions *)

\* what the statement asks of a stored numeric field, given the field as it
\* arrived: a text is parsed with its commas stripped, a text that does not
\* parse and a missing field are stored as null, and NaN is never stored
AsStated(raw, stored) ==
    /\ raw.t = "string" =>
          LET x == parseFloat(stripCommas(raw.s)) IN
          stored = IF x.nan THEN StoredNull ELSE Stored(x)
    /\ raw.t = "undefined" => stored = StoredNull
    /\ ~(~stored.null /\ stored.n.nan)
LastReceived == received.text.json
\* the stored position that came from the position last received
LastPosition ==
    CHOOSE q \in {positionsStringId[i] : i \in 1..Len(positionsStringId)} :
        LastReceived.data.id # <<>> => q.id = String(LastReceived.data.id[1])

\* C22 (orders): the price, quantity and quantityLeft of an order stored from
\* the GET /api/orders response are the parsed texts with the commas
\* stripped, or null, never NaN
C22_OrderFields ==
    (received.n > 0 /\ LastReceived.type = "orders") =>
        LET o == LastReceived.data IN
        /\ AsStated(o.price, ordersStringId[1].price)
        /\ AsStated(o.quantityOrdered, ordersStringId[1].quantity)
        /\ AsStated(o.quantityLeft, ordersStringId[1].quantityLeft)

\* C22 as stated: also the quantity, avgPrice and pnl of a stored position
\* are the parsed texts with the commas stripped, or null, never NaN
C22_Original ==
    /\ C22_OrderFields
    /\ (received.n > 0 /\ LastReceived.type = "positionsUpdated") =>
          LET p == LastReceived.data IN
          /\ AsStated(p.quantity, LastPosition.quantity)
          /\ AsStated(p.price, LastPosition.avgPrice)
          /\ AsStated(p.pnl, LastPosition.pnl)

\* C22 witness: a position arrived with the quantity "abc" and without pnl,
\* and both are stored as NaN, while its price "1,234.50" is stored as 1234.5
C22_Witness ==
    /\ received.n > 0 /\ LastReceived.type = "positionsUpdated"
    /\ LastReceived.data.quantity = Str(<<"a", "b", "c">>)
    /\ LastReceived.data.pnl = Missing
    /\ LastReceived.data.price = Str(<<"1", ",", "2", "3", "4", ".", "5", "0">>)
    /\ LastPosition.quantity = Stored(FloatNaN)
    /\ LastPosition.pnl = Stored(FloatNaN)
    /\ LastPosition.avgPrice = Stored(Float(12345, 1))

-----------------------------------------------------------------------------
(* C23: overlapping toggles *)

\* the programStateUpdated frames sent on the channel (the one of the snapshot
\* and the events), in the order sent
ProgramStateFrames(ch) ==
    SelectSeq(sent[ch], LAMBDA frame : frame.type = "programStateUpdated")
TogglePending == \E i \in 1..Len(inflight) : inflight[i].op \in ToggleOps

\* C23 as stated: once no toggle handler is suspended, the last program-state
\* frame sent on every open channel carries the store's running value
C23_Original ==
    ~TogglePending =>
        \A ch \in Channels :
            clients[ch] = "open" =>
                Last(ProgramStateFrames(ch)).data.running = store.programStateValue.running

\* C23 witness: two toggles overlapped and both have completed, the last to
\* complete being a request answered with the running state; the channel,
\* open throughout, was sent the stopped state first and the running state
\* last, while the store is stopped
C23_Witness ==
    /\ ~TogglePending
    /\ resp.op = "postToggle" /\ resp.status = 200 /\ resp.body.running
    /\ ~store.programStateValue.running
    /\ \E ch \in Channels :
          LET frames == ProgramStateFrames(ch) IN
          /\ clients[ch] = "open"
          /\ Len(frames) = 3
          /\ ~frames[1].data.running
          /\ ~frames[2].data.running
          /\ frames[3].data.running

-----------------------------------------------------------------------------
(* C24: a deliberate disconnect *)

\* C24 as stated: once disconnectFromSignalR has been called on a connection,
\* no reconnect timer is pending for it and it has no socket other than the
\* one being closed or closed
C24_Original ==
    \A c \in disconnected :
        /\ TimersOf(timers, c) = {}
        /\ conn[c].socket \in {"closing", "closed"}

\* C24 witness: the connection was disconnected on purpose, and a socket
\* created by its reconnect timer is open
C24_Witness ==
    \E c \in disconnected :
        /\ conn[c].socket = "open"
        /\ conn[c].handlers = "reconnect"
        /\ conn[c].isConnected

-----------------------------------------------------------------------------
(* C30: two connections in one page *)

\* the step is an open, close, reconnect or first disconnect event of d
EventOfConnection(d) ==
    \/ conn'[d] # conn[d]
    \/ d \notin disconnected /\ d \in disconnected'

\* C30 as stated: an event of one connection leaves the pending reconnect
\* timers of every other connection as they were
C30_Original ==
    [][\A c \in Connections, d \in Connections :
          (c # d /\ EventOfConnection(d)) =>
              TimersOf(timers', c) = TimersOf(timers, c)]_vars

\* C30 witness: connection 1 is closed after its first loss, was never
\* disconnected on purpose and is below its attempt cap, yet has no pending
\* reconnect: the close of connection 2 replaced it by a timer of its own
C30_Witness ==
    /\ conn[1].socket = "closed" /\ conn[1].reconnectAttempts = 0
    /\ 1 \notin disconnected
    /\ TimersOf(timers, 1) = {}
    /\ conn[2].socket = "closed"
    /\ Cardinality(TimersOf(timers, 2)) = 1

-----------------------------------------------------------------------------
(* C25: the orders mirror *)

\* C25 as stated: no two entries of the page's orders have the same id
C25_Original ==
    \A i, j \in 1..Len(mirror.orders) :
        i # j => mirror.orders[i].id # mirror.orders[j].id

\* C25 witness: the orders fetched by loadInitialData already held the new
\* order when the orderAdded event for it was delivered: the page lists the
\* order twice, the store holds it once
C25_Witness ==
    /\ page.at > 2
    /\ Len(mirror.orders) = 2
    /\ mirror.orders[1] = mirror.orders[2]
    /\ Len(getOrders(store)) = 1
    /\ received.text = stringify(Frame("orderAdded", mirror.orders[2]))

-----------------------------------------------------------------------------
(* C26: settings after a reconnect *)

\* the page's reconnected socket is open on its channel, every frame sent on
\* that channel has been delivered and no handler is suspended
Resynced ==
    /\ conn[1].socket = "open" /\ conn[1].handlers = "reconnect"
    /\ CurrentChannel = 2 /\ clients[2] = "open"
    /\ page.delivered[2] = Len(sent[2])
    /\ inflight = <<>>
\* no settingUpdated event was sent on any channel: every change of a setting
\* was made while the page's channel was closed
ChangedWhileClosedOnly ==
    \A ch \in Channels :
        \A i \in 1..Len(sent[ch]) : sent[ch][i].type # "settingUpdated"

\* C26 as stated: after settings were changed while the channel was closed,
\* once the page has reconnected and the bootstrap frames are delivered, its
\* globalSettings and dailyParameters are the store's settings
C26_Original ==
    (Resynced /\ ChangedWhileClosedOnly) =>
        /\ getSetting(store, "global") # Undefined =>
              mirror.globalSettings = getSetting(store, "global").data
        /\ getSetting(store, "daily") # Undefined =>
              mirror.dailyParameters = getSetting(store, "daily").data

\* C26 witness: the global setting was saved while the channel was closed;
\* the page has reconnected and taken the whole bootstrap, which holds no
\* setting, and still shows the defaults it had
C26_Witness ==
    /\ Resynced /\ ChangedWhileClosedOnly
    /\ getSetting(store, "global") # Undefined
    /\ getSetting(store, "global").data = [futureSymbol |-> "NQ"]
    /\ mirror.globalSettings = DefaultGlobalSettings
    /\ files.inputs # <<>>

-----------------------------------------------------------------------------
(* C27: the accounts snapshot *)

AccountOps == {"postAccount", "putAccount", "deleteAccount"}
AccountsPending == \E i \in 1..Len(inflight) : inflight[i].op \in AccountOps

\* C27 as stated: once no account request is suspended and no write of
\* accounts.json has failed, the file, if it was written at all, holds the
\* store's account collection
C27_Original ==
    (~AccountsPending /\ "accounts" \notin writeFailed /\ files.accounts # <<>>) =>
        files.accounts = <<getAccounts(store)>>

\* C27 witness: two account creations overlapped and both writes succeeded,
\* the later request's first; the file holds three accounts, the store four
C27_Witness ==
    /\ ~AccountsPending /\ writeFailed = {}
    /\ resp.op = "postAccount" /\ resp.status = 201
    /\ Len(getAccounts(store)) = 4
    /\ Len(files.accounts[1]) = 3
    /\ HasId(files.accounts[1], resp.body.id)

-----------------------------------------------------------------------------
(* C28: snapshot and restart *)

Names(accountList) == [i \in 1..Len(accountList) |-> accountList[i].name]

\* C28 as stated: when accounts.json holds the store's account collection and
\* the process is restarted, the new store has the same accounts, in number
\* and names, as the old one
C28_Original ==
    [][(resp'.op = "restart" /\ files.accounts = <<getAccounts(store)>>) =>
          Names(getAccounts(store')) = Names(getAccounts(store))]_vars

\* C28 witness: the file held the three accounts of the old store, all
\* writes had succeeded, and the restarted store has five: the two test
\* accounts of the constructor and the three of the file
C28_Witness ==
    /\ resp.op = "restart"
    /\ writeFailed = {}
    /\ files.accounts # <<>>
    /\ Names(files.accounts[1]) = <<"Account 1", "Account 2", "Acct1">>
    /\ Names(getAccounts(store)) =
          <<"Account 1", "Account 2", "Account 1", "Account 2", "Acct1">>

-----------------------------------------------------------------------------
(* C29: limits that are not positive *)

\* C29 as stated: a history read with an integer limit L, zero and negative
\* limits included, returns at most max(L, 0) entries
C29_Original ==
    (ret.op \in {"getBandDataHistory", "getQuoteHistory"} /\ ~ret.arg.limit.nan) =>
        Len(ret.value) <= Max(ret.arg.limit.n, 0)

\* C29 witness: the read with limit=0 returned the whole band history, and
\* the history is long
C29_Witness ==
    /\ ret.op = "getBandDataHistory"
    /\ ret.arg.query = <<"0">>
    /\ ret.arg.limit = Num(0)
    /\ ret.value = store.bandDataHistory
    /\ Len(ret.value) >= HistoryCap

=============================================================================
